---- MODULE Spec2Model ----
(***************************************************************************)
(* A model of streamlit's DeltaGenerator (lib/streamlit/delta_generator.py):*)
(* generator objects, their cursors, the per-session message queues, and   *)
(* the element, widget, _block and add_rows calls that act on them.        *)
(***************************************************************************)
EXTENDS Integers, Sequences, FiniteSets, TLC

\* ------------------------------------------------------------------ bounds
\* Number of API calls made in one behaviour.
MaxOps == 3
\* Number of widget calls made in one behaviour of SpecWidgets.
MaxWidgetOps == 1
\* Number of calls made in one behaviour of SpecElements.
MaxElementOps == 2

\* ------------------------------------------------------------------ threads
\* Script threads that carry a report context (one per session).
Sessions == {1, 2}
\* A thread without a report context (bare execution of the script).
NoCtx == 0
Threads == Sessions \cup {NoCtx}

\* get_report_ctx(): the context of the calling thread, NoCtx standing for None.
get_report_ctx(t) == IF t \in Sessions THEN t ELSE NoCtx

\* ------------------------------------------------------------------ values
\* Python values are tagged: ty names the type, v carries the payload
\* (0 when the type has none).  Floats carry their value in hundredths,
\* strings the sequence of their code points, lists their items.
Val(ty, v) == [ty |-> ty, v |-> v]
None == Val("None", 0)
NoValueClass == Val("NoValueClass", 0)
NoValueInstance == Val("NoValueInstance", 0)
BoolV(b) == Val("bool", IF b THEN 1 ELSE 0)
IntV(n) == Val("int", n)
FloatV(h) == Val("float", h)
StrV(s) == Val("str", s)
ListV(items) == Val("list", items)
DgV(d) == Val("dg", d)

\* Python truthiness of a value: None, a zero number, an empty str, list or
\* tuple and timedelta(0) are falsy; a date, a time, a datetime and any
\* other object are truthy.  The truth tests of the code are applied to
\* the arguments of checkbox, number_input and multiselect; a dataframe,
\* whose truth value pandas refuses to give, is not among them.
Truthy(x) ==
  CASE x.ty = "None" -> FALSE
    [] x.ty \in {"bool", "int", "float"} -> x.v # 0
    [] x.ty \in {"str", "list", "tuple"} -> Len(x.v) # 0
    [] x.ty \in {"timedelta", "micros"} -> x.v # <<0, 0, 0>>
    [] OTHER -> TRUE

\* isinstance(x, NoValue)
IsNoValueInstance(x) == x.ty = "NoValueInstance"
\* isinstance(x, numbers.Integral)
IsIntegral(x) == x.ty \in {"int", "bool"}
\* isinstance(x, int): bool is a subclass of int.
IsInt(x) == x.ty \in {"int", "bool"}
\* isinstance(x, float)
IsFloat(x) == x.ty = "float"

\* ------------------------------------------------------------------ containers
Containers == {"MAIN", "SIDEBAR"}
NoContainer == "None"
\* Proto index of a container (MAIN = 1).
ContainerValue(c) ==
  CASE c = "MAIN" -> 1
    [] c = "SIDEBAR" -> 2
    [] OTHER -> 0
\* `if self._container` : None and 0 are falsy.
ContainerTruthy(c) == c # NoContainer /\ ContainerValue(c) # 0

DELTAS_TYPES_THAT_MELT_DATAFRAMES == {"line_chart", "area_chart", "bar_chart"}

\* ------------------------------------------------------------------ objects
\* A cursor object.  A LockedCursor carries the props it was given as keyword
\* arguments (delta_type, last_index); has_props is FALSE when it was given
\* none, and reading props["delta_type"] then raises KeyError.
RunningCursor(path) ==
  [locked |-> FALSE, path |-> path, index |-> 0,
   has_props |-> FALSE, delta_type |-> "", last_index |-> None]
LockedCursor(path, index, delta_type, last_index) ==
  [locked |-> TRUE, path |-> path, index |-> index,
   has_props |-> TRUE, delta_type |-> delta_type, last_index |-> last_index]
\* LockedCursor(path=path, index=index): no props.
LockedCursorNoProps(path, index) ==
  [locked |-> TRUE, path |-> path, index |-> index,
   has_props |-> FALSE, delta_type |-> "", last_index |-> None]

\* A DeltaGenerator object: its container, its provided cursor (0 for None)
\* and the thread that holds the reference (Shared for a module-level one).
Shared == 0 - 1
DeltaGenerator(container, cursor, holder) ==
  [container |-> container, cursor |-> cursor, holder |-> holder]

\* The generators that exist before any call: st._main, st.sidebar, and a
\* null generator (container None).
MainDg == 1
SidebarDg == 2
NullDg == 3

\* The cursor object that ctx.cursors holds for a container of a session.
CtxCursorId(s, c) == 2 * (s - 1) + ContainerValue(c)

\* The world the operations act on: the heap of cursors, the heap of
\* generators, every session's queue of enqueued messages, and every
\* thread's caching._cache_info.
World(cs, ds, qs, ci) ==
  [cursors |-> cs, dgs |-> ds, queues |-> qs, cache_info |-> ci]

\* cursor.get_container_cursor(container): None without a report context,
\* else the running cursor kept in ctx.cursors.
get_container_cursor(t, c) ==
  IF get_report_ctx(t) = NoCtx THEN 0 ELSE CtxCursorId(get_report_ctx(t), c)

\* _cursor with one running cursor per container, kept for all sessions
\* instead of one per report context.
CursorOf_shared(w, t, d) ==
  IF w.dgs[d].cursor = 0
    THEN (IF get_report_ctx(t) = NoCtx
            THEN 0
            ELSE CtxCursorId(1, w.dgs[d].container))
    ELSE w.dgs[d].cursor

\* DeltaGenerator._cursor
CursorOf(w, t, d) ==
  IF w.dgs[d].cursor = 0
    THEN get_container_cursor(t, w.dgs[d].container)
    ELSE w.dgs[d].cursor

\* cursor.get_locked_cursor(delta_type=delta_type, last_index=last_index): a
\* RunningCursor hands out a new LockedCursor at its index and moves on; a
\* LockedCursor takes the props and returns itself.  The result is [w, cur].
get_locked_cursor(w, c, delta_type, last_index) ==
  LET cur == w.cursors[c] IN
  IF cur.locked
    THEN [w |-> [w EXCEPT !.cursors[c] =
                   LockedCursor(cur.path, cur.index, delta_type, last_index)],
          cur |-> c]
    ELSE [w |-> [w EXCEPT !.cursors =
                   Append([@ EXCEPT ![c].index = @ + 1],
                          LockedCursor(cur.path, cur.index, delta_type, last_index))],
          cur |-> Len(w.cursors) + 1]

\* streamlit/cursor.py is not among the sources: how get_locked_cursor takes
\* its arguments is known from its calls only.  Every call but one passes
\* keyword props; _block passes one positional None.  A cursor module whose
\* method is get_locked_cursor(self, **props) rejects that call with
\* TypeError; one whose method also takes a positional parameter accepts it,
\* and then no props are passed.
CursorApis == {"keyword_props", "positional"}

\* cursor.get_locked_cursor(None) under cursor module api.  The result is
\* [w, cur, raised].
get_locked_cursor_positional(w, c, api) ==
  LET cur == w.cursors[c] IN
  IF api = "keyword_props"
    THEN [w |-> w, cur |-> 0, raised |-> TRUE]
  ELSE IF cur.locked
    THEN [w |-> [w EXCEPT !.cursors[c] =
                   LockedCursorNoProps(cur.path, cur.index)],
          cur |-> c, raised |-> FALSE]
    ELSE [w |-> [w EXCEPT !.cursors =
                   Append([@ EXCEPT ![c].index = @ + 1],
                          LockedCursorNoProps(cur.path, cur.index))],
          cur |-> Len(w.cursors) + 1, raised |-> FALSE]

\* ForwardMsg with metadata.delta_id never assigned: it keeps the proto
\* default.
ForwardMsg_delta_id_unset(container, path, delta_id, kind, delta_type, cur) ==
  [container |-> container, path |-> path, delta_id |-> 0,
   kind |-> kind, delta_type |-> delta_type, cur |-> cur,
   element_width |-> None, element_height |-> None]

\* A ForwardMsg as the queue sees it: metadata.parent_block.container and
\* .path, metadata.delta_id, the delta's kind, and
\* metadata.element_dimension_spec (None where it is not set).  delta_type
\* and cur are history: the delta_type the enqueueing method was given and
\* the cursor the metadata was read from.
ForwardMsg(container, path, delta_id, kind, delta_type, cur) ==
  [container |-> container, path |-> path, delta_id |-> delta_id,
   kind |-> kind, delta_type |-> delta_type, cur |-> cur,
   element_width |-> None, element_height |-> None]

\* _enqueue_message(msg): raises NoSessionContext without a context.
\* The result is [w, raised].
_enqueue_message(w, t, msg) ==
  IF get_report_ctx(t) = NoCtx
    THEN [w |-> w, raised |-> TRUE]
    ELSE [w |-> [w EXCEPT !.queues[get_report_ctx(t)] = Append(@, msg)],
          raised |-> FALSE]

\* _value_or_dg(value, dg)
_value_or_dg(value, dg) ==
  IF value = NoValueClass THEN None
  ELSE IF value = None THEN dg
  ELSE value

\* The outcome of a call: the world after it, what it returned, whether it
\* raised.
Outcome(w, ret, raised) == [w |-> w, ret |-> ret, raised |-> raised]

\* Objects nobody holds are dropped: when a call does not hand the generator
\* it created to its caller, the heaps go back to the objects that existed
\* before the call (w0); field updates of existing objects stay.
Collect(w0, o) ==
  IF o.ret.ty = "dg" /\ o.ret.v > Len(w0.dgs)
    THEN o
    ELSE Outcome([o.w EXCEPT !.cursors = SubSeq(@, 1, Len(w0.cursors)),
                             !.dgs = SubSeq(@, 1, Len(w0.dgs))],
                 o.ret, o.raised)


\* ------------------------------------------------------------------ enqueueing
\* caching._cache_info of a thread: the number of cached functions the thread
\* is running (the length of within_cached_func_stack) and the counter
\* suppress_st_function_warning.
CacheInfo(depth, suppress) ==
  [within_cached_func_stack |-> depth, suppress_st_function_warning |-> suppress]

RECURSIVE _enqueue(_, _, _, _, _, _, _, _)

\* ExceptionMixin.exception(exception): an exception element enqueued through
\* the generator itself; the generator it returns is not kept.
exception(w, t, d) ==
  LET dropped(o) == Collect(w, Outcome(o.w, None, o.raised))
  IN dropped(_enqueue(w, t, d, "exception", None, None, None, None))

\* caching.maybe_show_cached_st_function_warning(dg, st_func_name): within a
\* cached function, unless warnings are suppressed, the warning is shown with
\* dg.exception; the warnings of that call are suppressed.
maybe_show_cached_st_function_warning(w, t, d) ==
  LET info == w.cache_info[t]
      unsuppressed(e) ==
        Outcome([e.w EXCEPT
                   !.cache_info[t].suppress_st_function_warning = @ - 1],
                None, e.raised)
  IN IF info.within_cached_func_stack > 0
          /\ info.suppress_st_function_warning <= 0
       THEN unsuppressed(
              exception([w EXCEPT
                           !.cache_info[t].suppress_st_function_warning = @ + 1],
                        t, d))
       ELSE Outcome(w, None, FALSE)

\* DeltaGenerator._enqueue(delta_type, element_proto, return_value,
\* last_index, element_width, element_height)
_enqueue(w0, t, d, delta_type, return_value, last_index, element_width, element_height) ==
  LET enqueue(h) ==
        LET w == h.w
            dg == w.dgs[d]
            c == IF ContainerTruthy(dg.container) THEN CursorOf(w, t, d) ELSE 0
        IN
        IF h.raised THEN Outcome(w, None, TRUE)
        ELSE IF ContainerTruthy(dg.container) /\ c # 0
          THEN LET msg0 == ForwardMsg(dg.container, w.cursors[c].path,
                                      w.cursors[c].index, "new_element",
                                      delta_type, c)
                   msg == [msg0 EXCEPT
                             !.element_width =
                               IF element_width # None THEN element_width ELSE @,
                             !.element_height =
                               IF element_height # None THEN element_height ELSE @]
                   e == _enqueue_message(w, t, msg)
                   l == get_locked_cursor(e.w, c, delta_type, last_index)
                   w2 == [l.w EXCEPT !.dgs =
                            Append(@, DeltaGenerator(dg.container, l.cur, t))]
               IN IF e.raised
                    THEN Outcome(w, None, TRUE)
                    ELSE Outcome(w2, _value_or_dg(return_value, DgV(Len(w2.dgs))),
                                 FALSE)
          ELSE Outcome(w, _value_or_dg(return_value, DgV(d)), FALSE)
  IN enqueue(maybe_show_cached_st_function_warning(w0, t, d))

\* st.warning(body): an alert element on the module-level main generator; the
\* generator it returns is not kept.
st_warning(w, t) ==
  LET dropped(o) == Collect(w, Outcome(o.w, None, o.raised))
  IN dropped(_enqueue(w, t, MainDg, "alert", None, None, None, None))

\* What a method body does when it runs as marshall_element: the output call
\* it makes on the way ("st.warning", "dg.exception" or "" for none), the
\* value it returns, and whether it raises after that call.
Marshalled(shows, ret, raised) ==
  [shows |-> shows, ret |-> ret, raised |-> raised]

\* marshall_element(msg.delta.new_element): the method body m run by thread t
\* for generator d.
marshall_element(w, t, d, m) ==
  LET done(s) == Outcome(s.w, m.ret, s.raised \/ m.raised)
  IN CASE m.shows = "st.warning" -> done(st_warning(w, t))
       [] m.shows = "dg.exception" -> done(exception(w, t, d))
       [] OTHER -> Outcome(w, m.ret, m.raised)

\* DeltaGenerator._enqueue_new_element_delta(marshall_element, delta_type,
\* last_index, element_width, element_height): m is the method body the
\* call of marshall_element runs.
_enqueue_new_element_delta(w0, t, d, m, delta_type, last_index, element_width, element_height) ==
  LET enqueue(r) ==
        LET w == r.w
            rv == r.ret
            dg == w.dgs[d]
            c == IF ContainerTruthy(dg.container) THEN CursorOf(w, t, d) ELSE 0
        IN
        IF r.raised THEN Outcome(w, None, TRUE)
        ELSE IF ContainerTruthy(dg.container) /\ c # 0
          THEN LET msg0 == ForwardMsg(dg.container, w.cursors[c].path,
                                      w.cursors[c].index, "new_element",
                                      delta_type, c)
                   msg == [msg0 EXCEPT
                             !.element_width =
                               IF element_width # None THEN element_width ELSE @,
                             !.element_height =
                               IF element_height # None THEN element_height ELSE @]
                   e == _enqueue_message(w, t, msg)
                   l == get_locked_cursor(e.w, c, delta_type, last_index)
                   w2 == [l.w EXCEPT !.dgs =
                            Append(@, DeltaGenerator(dg.container, l.cur, t))]
               IN IF e.raised
                    THEN Outcome(w, None, TRUE)
                    ELSE Outcome(w2, _value_or_dg(rv, DgV(Len(w2.dgs))), FALSE)
          ELSE Outcome(w, _value_or_dg(rv, DgV(d)), FALSE)
  IN enqueue(marshall_element(w0, t, d, m))

\* _block without the call that increments the parent cursor's index.
_block_no_increment(w, t, d, api) ==
  LET dg == w.dgs[d]
      c == IF dg.container = NoContainer THEN 0 ELSE CursorOf(w, t, d)
  IN
  IF dg.container = NoContainer \/ c = 0
    THEN Outcome(w, DgV(d), FALSE)
    ELSE LET msg == ForwardMsg(dg.container, w.cursors[c].path,
                               w.cursors[c].index, "new_block", "", c)
             block_cursor == RunningCursor(Append(w.cursors[c].path,
                                                  w.cursors[c].index))
             w1 == [w EXCEPT !.cursors = Append(@, block_cursor)]
             block_dg == DeltaGenerator(dg.container, Len(w1.cursors), t)
             w2 == [w1 EXCEPT !.dgs = Append(@, block_dg)]
             e == _enqueue_message(w2, t, msg)
         IN IF e.raised
              THEN Outcome(w, None, TRUE)
              ELSE Outcome(e.w, DgV(Len(w2.dgs)), FALSE)

\* _block giving the block's cursor the parent's path, without the index the
\* block occupies.
_block_parent_path(w, t, d, api) ==
  LET dg == w.dgs[d]
      c == IF dg.container = NoContainer THEN 0 ELSE CursorOf(w, t, d)
  IN
  IF dg.container = NoContainer \/ c = 0
    THEN Outcome(w, DgV(d), FALSE)
    ELSE LET msg == ForwardMsg(dg.container, w.cursors[c].path,
                               w.cursors[c].index, "new_block", "", c)
             block_cursor == RunningCursor(w.cursors[c].path)
             w1 == [w EXCEPT !.cursors = Append(@, block_cursor)]
             block_dg == DeltaGenerator(dg.container, Len(w1.cursors), t)
             w2 == [w1 EXCEPT !.dgs = Append(@, block_dg)]
             l == get_locked_cursor_positional(w2, c, api)
             w3 == [l.w EXCEPT !.cursors = SubSeq(@, 1, Len(w2.cursors))]
             e == _enqueue_message(w3, t, msg)
         IN IF l.raised
              THEN Collect(w, Outcome(w2, None, TRUE))
            ELSE IF e.raised
              THEN Collect(w, Outcome(w3, None, TRUE))
              ELSE Outcome(e.w, DgV(Len(w2.dgs)), FALSE)

\* DeltaGenerator._block(), with the cursor module api.
_block(w, t, d, api) ==
  LET dg == w.dgs[d]
      c == IF dg.container = NoContainer THEN 0 ELSE CursorOf(w, t, d)
  IN
  IF dg.container = NoContainer \/ c = 0
    THEN Outcome(w, DgV(d), FALSE)
    ELSE LET msg == ForwardMsg(dg.container, w.cursors[c].path,
                               w.cursors[c].index, "new_block", "", c)
             block_cursor == RunningCursor(Append(w.cursors[c].path,
                                                  w.cursors[c].index))
             w1 == [w EXCEPT !.cursors = Append(@, block_cursor)]
             block_dg == DeltaGenerator(dg.container, Len(w1.cursors), t)
             w2 == [w1 EXCEPT !.dgs = Append(@, block_dg)]
             \* Must be called to increment this cursor's index; the locked
             \* cursor it hands out is dropped.  When the call raises, the
             \* block's cursor and generator are dropped with it.
             l == get_locked_cursor_positional(w2, c, api)
             w3 == [l.w EXCEPT !.cursors = SubSeq(@, 1, Len(w2.cursors))]
             e == _enqueue_message(w3, t, msg)
         IN IF l.raised
              THEN Collect(w, Outcome(w2, None, TRUE))
            ELSE IF e.raised
              THEN Collect(w, Outcome(w3, None, TRUE))
              ELSE Outcome(e.w, DgV(Len(w2.dgs)), FALSE)


\* ------------------------------------------------------------------ elements
\* A dataframe with k rows and the default RangeIndex.
DfV(k) == Val("df", k)

\* _with_element(method): the wrapped method called with the positional
\* arguments args.  It shows the cached-function warning, works out last_index
\* for the chart types that melt their data when the data is passed by
\* position, then hands the method body m, as marshall_element, to
\* _enqueue_new_element_delta.
with_element(w, t, d, m, delta_type, args) ==
  LET last_index ==
        IF delta_type \in DELTAS_TYPES_THAT_MELT_DATAFRAMES /\ Len(args) > 0
          THEN (IF args[1].ty = "df" /\ args[1].v > 0
                  THEN IntV(args[1].v - 1) ELSE None)
          ELSE None
      wrapped_method(h) ==
        IF h.raised THEN Outcome(h.w, None, TRUE)
        ELSE _enqueue_new_element_delta(h.w, t, d, m, delta_type, last_index,
                                        None, None)
  IN wrapped_method(maybe_show_cached_st_function_warning(w, t, d))

\* DeltaGenerator.empty()
empty(w, t, d) ==
  with_element(w, t, d, Marshalled("", None, FALSE), "empty", <<>>)

\* TextMixin.text(body): the result of _enqueue is not returned.
text(w, t, d) ==
  LET unreturned(o) == Outcome(o.w, None, o.raised)
  IN unreturned(_enqueue(w, t, d, "text", None, None, None, None))

\* DeltaGenerator.vega_lite_chart(data, spec, width): a width other than 0
\* shows a deprecation warning while marshalling.
vega_lite_chart(w, t, d, width) ==
  with_element(w, t, d,
               Marshalled(IF width # 0 THEN "st.warning" ELSE "", None, FALSE),
               "vega_lite_chart", <<>>)

\* DeltaGenerator.line_chart(data): positional tells whether data is passed
\* by position or as data=...
line_chart(w, t, d, data, positional) ==
  with_element(w, t, d, Marshalled("", None, FALSE), "line_chart",
               IF positional THEN <<data>> ELSE <<>>)

\* DeltaGenerator.area_chart(data)
area_chart(w, t, d, data, positional) ==
  with_element(w, t, d, Marshalled("", None, FALSE), "area_chart",
               IF positional THEN <<data>> ELSE <<>>)

\* DeltaGenerator.bar_chart(data)
bar_chart(w, t, d, data, positional) ==
  with_element(w, t, d, Marshalled("", None, FALSE), "bar_chart",
               IF positional THEN <<data>> ELSE <<>>)

\* DeltaGenerator.checkbox(label, value): ui_value is what
\* _get_widget_ui_value finds for the widget.
checkbox(w, t, d, value, ui_value) ==
  LET current_value == IF ui_value # None THEN ui_value ELSE value
  IN with_element(w, t, d,
                  Marshalled("", BoolV(Truthy(current_value)), FALSE),
                  "checkbox", <<>>)

\* DeltaGenerator.radio(label, options, index)
radio(w, t, d, options, index, ui_value) ==
  LET current_value == IF ui_value # None THEN ui_value.v ELSE index.v
      rv == IF Len(options) > 0 /\ options[current_value + 1] # None
              THEN options[current_value + 1]
              ELSE NoValueClass
      m == IF ~IsInt(index) THEN Marshalled("", None, TRUE)
           ELSE IF Len(options) > 0 /\ ~(0 <= index.v /\ index.v < Len(options))
             THEN Marshalled("", None, TRUE)
           ELSE Marshalled("", rv, FALSE)
  IN with_element(w, t, d, m, "radio", <<>>)

\* ------------------------------------------------------------------ text
\* ord(c) of a printable ASCII character other than the grave accent: the
\* characters from 32 to 95 and from 97 to 126, in the order of their code
\* points.
ord(c) ==
  LET low == " !\"#$%&'()*+,-./0123456789:;<=>?@ABCDEFGHIJKLMNOPQRSTUVWXYZ[\\]^_"
      high == "abcdefghijklmnopqrstuvwxyz{|}~"
  IN IF \E i \in 1..Len(low) : SubSeq(low, i, i) = c
       THEN 31 + CHOOSE i \in 1..Len(low) : SubSeq(low, i, i) = c
       ELSE 96 + CHOOSE i \in 1..Len(high) : SubSeq(high, i, i) = c

\* The code points of a text of printable ASCII characters.
Str(s) == [i \in 1..Len(s) |-> ord(SubSeq(s, i, i))]

\* The code points of the characters of s, as a set.
Chars(s) == {ord(SubSeq(s, i, i)) : i \in 1..Len(s)}

\* The characters above ASCII that str.isspace() holds for: float() reads
\* them as blanks.
UnicodeSpaces ==
  {133, 160, 5760} \cup (8192..8202) \cup {8232, 8233, 8239, 8287, 12288}

\* The code point of the digit zero of every run of decimal digits
\* (category Nd); the digits one to nine follow it.
DecimalZeros ==
  {48, 1632, 1776, 1984, 2406, 2534, 2662, 2790, 2918, 3046, 3174, 3302, 3430,
   3558, 3664, 3792, 3872, 4160, 4240, 6112, 6160, 6470, 6608, 6784, 6800,
   6992, 7088, 7232, 7248, 42528, 43216, 43264, 43472, 43504, 43600, 44016,
   65296, 66720, 68912, 69734, 69872, 69942, 70096, 70384, 70736, 70864,
   71248, 71360, 71472, 71904, 72016, 72784, 73040, 73120, 92768, 92864,
   93008, 120782, 120792, 120802, 120812, 120822, 123200, 123632, 125264,
   130032}

\* The decimal digits: what \d of a str pattern matches and what int() and
\* float() read as digits.
Decimals == UNION {z..(z + 9) : z \in DecimalZeros}

\* The value of a decimal digit.
DecimalValue(c) == c - (CHOOSE z \in DecimalZeros : c - z \in 0..9)

\* c repeated n times.
RECURSIVE Repeat(_, _)
Repeat(c, n) == IF n <= 0 THEN <<>> ELSE c \o Repeat(c, n - 1)

\* The first position from i on whose character is not in S.
RECURSIVE SkipWhile(_, _, _)
SkipWhile(s, i, S) ==
  IF i <= Len(s) /\ s[i] \in S THEN SkipWhile(s, i + 1, S) ELSE i

\* The last position up to i whose character is not in S.
RECURSIVE SkipBack(_, _, _)
SkipBack(s, i, S) ==
  IF i >= 1 /\ s[i] \in S THEN SkipBack(s, i - 1, S) ELSE i

\* int(s[i..j-1]) of a run of decimal digits, 0 when there are none; a blank
\* before the digits is dropped.
RECURSIVE Number(_, _, _)
Number(s, i, j) ==
  IF j <= i THEN 0
  ELSE IF s[j - 1] \notin Decimals THEN Number(s, i, j - 1)
  ELSE 10 * Number(s, i, j - 1) + DecimalValue(s[j - 1])

\* ------------------------------------------------------------------ format % 2
\* One conversion of the integer 2: flags, minimum width, precision (has_prec
\* tells whether one was given) and conversion character.
FormatTwo(flags, width, has_prec, prec, conv) ==
  LET flag(c) == \E k \in 1..Len(flags) : flags[k] = ord(c)
      is(S) == conv \in Chars(S)
      numeric == ~is("rsac")
      sign == IF ~numeric THEN <<>>
              ELSE IF flag("+") THEN Str("+")
              ELSE IF flag(" ") THEN Str(" ")
              ELSE <<>>
      prefix == IF ~flag("#") THEN <<>>
                ELSE IF is("x") THEN Str("0x")
                ELSE IF is("X") THEN Str("0X")
                ELSE IF is("o") THEN Str("0o")
                ELSE <<>>
      p == IF has_prec THEN prec ELSE 6
      point == IF p > 0 THEN Str(".") \o Repeat(Str("0"), p)
               ELSE IF flag("#") THEN Str(".")
               ELSE <<>>
      body ==
        CASE is("diuoxX") ->
               Repeat(Str("0"), (IF has_prec THEN prec ELSE 0) - 1) \o Str("2")
          [] is("fF") -> Str("2") \o point
          [] is("e") -> Str("2") \o point \o Str("e+00")
          [] is("E") -> Str("2") \o point \o Str("E+00")
          [] is("gG") ->
               IF flag("#")
                 THEN Str("2.") \o Repeat(Str("0"), (IF p = 0 THEN 1 ELSE p) - 1)
                 ELSE Str("2")
          \* chr(2)
          [] is("c") -> <<2>>
          [] is("rsa") ->
               IF has_prec /\ prec = 0 THEN <<>> ELSE Str("2")
      fill == width - Len(sign) - Len(prefix) - Len(body)
  IN IF flag("-") THEN sign \o prefix \o body \o Repeat(Str(" "), fill)
     ELSE IF flag("0") /\ numeric
       THEN sign \o prefix \o Repeat(Str("0"), fill) \o body
     ELSE Repeat(Str(" "), fill) \o sign \o prefix \o body

\* format % 2 from position i of the format on: out is the text produced so
\* far, used tells whether the argument has been converted.  The result is
\* [ok, text]; ok is FALSE when the operation raises TypeError or ValueError.
RECURSIVE PercentTwo(_, _, _, _)
PercentTwo(s, i, out, used) ==
  IF i > Len(s) THEN [ok |-> used, text |-> out]
  ELSE IF s[i] # ord("%") THEN PercentTwo(s, i + 1, Append(out, s[i]), used)
  ELSE IF i + 1 <= Len(s) /\ s[i + 1] = ord("%")
    THEN PercentTwo(s, i + 2, Append(out, ord("%")), used)
  ELSE
    LET f == i + 1
        wd == SkipWhile(s, f, Chars("#0- +"))
        pt == SkipWhile(s, wd, Chars("0123456789"))
        has_prec == pt <= Len(s) /\ s[pt] = ord(".")
        lm == IF has_prec THEN SkipWhile(s, pt + 1, Chars("0123456789")) ELSE pt
        cv == IF lm <= Len(s) /\ s[lm] \in Chars("hlL") THEN lm + 1 ELSE lm
    IN IF cv > Len(s) \/ s[cv] \notin Chars("diuoxXeEfFgGrsac") \/ used
         THEN [ok |-> FALSE, text |-> out]
         ELSE PercentTwo(s, cv + 1,
                         out \o FormatTwo(SubSeq(s, f, wd - 1),
                                          Number(s, wd, pt), has_prec,
                                          Number(s, pt + 1, lm), s[cv]),
                         TRUE)

\* float(s) succeeds.  A blank above ASCII is read as a blank and a decimal
\* digit of any script as its ASCII digit; any other character above ASCII
\* fails.  Then: blanks around (tab, line feed, vertical tab, form feed,
\* carriage return, space), a sign, and inf, infinity or nan in any case, or
\* digits with an optional point and exponent; underscores may stand between
\* digits.
FloatParses(s) ==
  LET ascii == [k \in 1..Len(s) |->
                  IF s[k] <= 127 THEN s[k]
                  ELSE IF s[k] \in UnicodeSpaces THEN 32
                  ELSE IF s[k] \in Decimals THEN 48 + DecimalValue(s[k])
                  ELSE 0]
      blanks == (9..13) \cup {32}
      digits == 48..57
      a == SkipWhile(ascii, 1, blanks)
      b == SkipBack(ascii, Len(ascii), blanks)
      y == IF a <= b THEN SubSeq(ascii, a, b) ELSE <<>>
      underscores_ok ==
        \A k \in 1..Len(y) :
          y[k] = ord("_") =>
            /\ k > 1 /\ k < Len(y)
            /\ y[k - 1] \in digits /\ y[k + 1] \in digits
      z == SelectSeq(y, LAMBDA c : c # ord("_"))
      n == Len(z)
      p == IF n > 0 /\ z[1] \in Chars("+-") THEN 2 ELSE 1
      lower == [k \in 1..(n - p + 1) |->
                  IF z[p + k - 1] \in 65..90 THEN z[p + k - 1] + 32
                  ELSE z[p + k - 1]]
      i1 == SkipWhile(z, p, digits)
      i2 == IF i1 <= n /\ z[i1] = ord(".")
              THEN SkipWhile(z, i1 + 1, digits) ELSE i1
      ndigits == (i1 - p) + (IF i2 > i1 THEN i2 - i1 - 1 ELSE 0)
      has_exp == i2 <= n /\ z[i2] \in Chars("eE")
      e1 == IF has_exp /\ i2 + 1 <= n /\ z[i2 + 1] \in Chars("+-")
              THEN i2 + 2 ELSE i2 + 1
      e2 == SkipWhile(z, e1, digits)
  IN /\ underscores_ok
     /\ \/ lower \in {Str("inf"), Str("infinity"), Str("nan")}
        \/ /\ ndigits > 0
           /\ IF has_exp THEN e2 > e1 /\ e2 = n + 1 ELSE i2 = n + 1

\* float(format % 2) succeeds, for a format that is a str.
FormatValid(format) ==
  LET r == PercentTwo(format, 1, <<>>, FALSE)
  IN r.ok /\ FloatParses(r.text)

\* ------------------------------------------------------------------ number_input
\* The default of number_input when value is not passed (a NoValue instance).
NumberInputDefault(min_value, value) ==
  IF IsNoValueInstance(value)
    THEN (IF Truthy(min_value) THEN min_value ELSE FloatV(0))
    ELSE value

\* The range check of number_input; the operands have one numeric type.
NumberInputOutOfRange(min_value, max_value, value) ==
  \/ (Truthy(min_value) /\ min_value.v > value.v)
  \/ (Truthy(max_value) /\ max_value.v < value.v)

\* The body of DeltaGenerator.number_input, run as marshall_element; format0
\* is None or a str.
number_input_marshall(min_value, max_value, value0, step0, format0, ui_value) ==
  LET value == NumberInputDefault(min_value, value0)
      int_value == IsIntegral(value)
      float_value == IsFloat(value)
      format == IF format0 = None
                  THEN StrV(IF int_value THEN Str("%d") ELSE Str("%0.2f"))
                  ELSE format0
      shows == IF format \in {StrV(Str("%d")), StrV(Str("%u")), StrV(Str("%i"))}
                  /\ float_value
                 THEN "st.warning"
                 ELSE ""
      step == IF step0 = None
                THEN (IF int_value THEN IntV(1) ELSE FloatV(1))
                ELSE step0
      args == <<min_value, max_value, step>>
      int_args == \A i \in 1..3 : IsIntegral(args[i]) \/ args[i] = None
      float_args == \A i \in 1..3 : IsFloat(args[i]) \/ args[i] = None
      all_ints == int_value /\ int_args
      all_floats == float_value /\ float_args
  IN
  IF value = None THEN Marshalled("", None, TRUE)
  ELSE IF ~FormatValid(format.v) THEN Marshalled(shows, None, TRUE)
  ELSE IF ~int_args /\ ~float_args THEN Marshalled(shows, None, TRUE)
  ELSE IF ~all_ints /\ ~all_floats THEN Marshalled(shows, None, TRUE)
  ELSE IF NumberInputOutOfRange(min_value, max_value, value)
    THEN Marshalled(shows, None, TRUE)
  ELSE Marshalled(shows, IF ui_value # None THEN ui_value ELSE value, FALSE)

\* DeltaGenerator.number_input(label, min_value, max_value, value, step, format)
number_input(w, t, d, min_value, max_value, value, step, format, ui_value) ==
  with_element(w, t, d,
               number_input_marshall(min_value, max_value, value, step,
                                     format, ui_value),
               "number_input", <<>>)

\* ------------------------------------------------------------------ more values
TupleV(items) == Val("tuple", items)
\* Naive values of datetime.time (seconds since midnight and microseconds),
\* datetime.date (<<year, month, day>>) and datetime.datetime (all three).
TimeV(s, us) == Val("time", <<s, us>>)
DateV(ymd) == Val("date", ymd)
DatetimeV(ymd, s, us) == Val("datetime", <<ymd, s, us>>)
\* datetime.timedelta: days, seconds and microseconds, normalised.
TimedeltaV(days, s, us) == Val("timedelta", <<days, s, us>>)
\* A float that is a whole number of microseconds: days, seconds and
\* microseconds of it (a timestamp does not fit in hundredths).
MicrosV(days, s, us) == Val("micros", <<days, s, us>>)
\* The data of an uploaded file as get_encoded_file_data hands it back.
FileV(k) == Val("file", k)

\* isinstance(x, (date, datetime)): datetime is a subclass of date.
IsDate(x) == x.ty \in {"date", "datetime"}
\* datetime.date() and datetime.time()
DateOf(x) == IF x.ty = "datetime" THEN DateV(x.v[1]) ELSE x
TimeOf(x) == IF x.ty = "datetime" THEN TimeV(x.v[2], x.v[3]) ELSE x

\* The value of a number in hundredths.
Hundredths(x) == IF x.ty = "float" THEN x.v ELSE 100 * x.v

\* Python's a == b.
RECURSIVE PyEq(_, _)
PyEq(a, b) ==
  IF a.ty \in {"bool", "int", "float"} /\ b.ty \in {"bool", "int", "float"}
    THEN Hundredths(a) = Hundredths(b)
  ELSE IF a.ty # b.ty THEN FALSE
  ELSE IF a.ty \in {"list", "tuple"}
    THEN /\ Len(a.v) = Len(b.v)
         /\ \A i \in 1..Len(a.v) : PyEq(a.v[i], b.v[i])
  ELSE a.v = b.v

\* x in items
PyIn(x, items) == \E i \in 1..Len(items) : PyEq(items[i], x)
\* items.index(x)
PyIndex(items, x) ==
  (CHOOSE i \in 1..Len(items) :
     PyEq(items[i], x) /\ \A j \in 1..(i - 1) : ~PyEq(items[j], x)) - 1

\* int(x) of a number: truncation towards zero.
PyInt(x) ==
  IF x.ty = "float"
    THEN IntV(IF x.v < 0 THEN 0 - ((0 - x.v) \div 100) ELSE x.v \div 100)
    ELSE IntV(x.v)

\* str(n) of an int
RECURSIVE IntToStr(_)
IntToStr(n) ==
  IF n < 0 THEN Str("-") \o IntToStr(0 - n)
  ELSE IF n < 10 THEN <<48 + n>>
  ELSE Append(IntToStr(n \div 10), 48 + (n % 10))
\* str(x) of a float given in hundredths
FloatToStr(h) ==
  LET a == IF h < 0 THEN 0 - h ELSE h
      frac == a % 100
  IN (IF h < 0 THEN Str("-") ELSE <<>>) \o IntToStr(a \div 100) \o Str(".")
       \o (IF frac % 10 = 0 THEN <<48 + (frac \div 10)>>
           ELSE <<48 + (frac \div 10), 48 + (frac % 10)>>)
\* str(x)
PyStr(x) ==
  CASE x.ty = "None" -> Str("None")
    [] x.ty = "bool" -> (IF x.v = 1 THEN Str("True") ELSE Str("False"))
    [] x.ty = "int" -> IntToStr(x.v)
    [] x.ty = "float" -> FloatToStr(x.v)
    [] x.ty = "str" -> x.v

\* list(x) of a tuple or a string
PyList(x) ==
  CASE x.ty \in {"list", "tuple"} -> x.v
    [] x.ty = "str" -> [i \in 1..Len(x.v) |-> StrV(<<x.v[i]>>)]

\* ------------------------------------------------------------------ dates
\* The number of days of a month.
DaysInMonth(y, m) ==
  IF m = 2
    THEN (IF y % 4 = 0 /\ (y % 100 # 0 \/ y % 400 = 0) THEN 29 ELSE 28)
  ELSE IF m \in {4, 6, 9, 11} THEN 30
  ELSE 31

\* The number of days of year y before the first of month m.
RECURSIVE DaysBeforeMonth(_, _)
DaysBeforeMonth(y, m) ==
  IF m <= 1 THEN 0 ELSE DaysBeforeMonth(y, m - 1) + DaysInMonth(y, m - 1)

\* date.toordinal(): the first of January of year 1 is day 1, the last day
\* of year 9999 day 3652059.
ymd2ord(ymd) ==
  LET y == ymd[1] - 1
  IN (y * 365) + (y \div 4) - (y \div 100) + (y \div 400)
       + DaysBeforeMonth(ymd[1], ymd[2]) + ymd[3]

\* date.fromordinal(n) for n in 1..3652059.
ord2ymd(n) ==
  LET n400 == (n - 1) \div 146097
      r400 == (n - 1) % 146097
      n100 == r400 \div 36524
      r100 == r400 % 36524
      n4 == r100 \div 1461
      r4 == r100 % 1461
      n1 == r4 \div 365
      r1 == r4 % 365
      year == (n400 * 400) + (n100 * 100) + (n4 * 4) + n1 + 1
      month == CHOOSE m \in 1..12 :
                 /\ DaysBeforeMonth(year, m) <= r1
                 /\ r1 < DaysBeforeMonth(year, m) + DaysInMonth(year, m)
  IN IF n1 = 4 \/ n100 = 4 THEN <<year - 1, 12, 31>>
     ELSE <<year, month, r1 - DaysBeforeMonth(year, month) + 1>>

\* d + timedelta(days=k) of a date or a naive datetime: [ok, value]; ok is
\* FALSE when it raises OverflowError.
PlusDays(x, k) ==
  LET n == ymd2ord(DateOf(x).v) + k
  IN IF n < 1 \/ n > 3652059 THEN [ok |-> FALSE, value |-> None]
     ELSE [ok |-> TRUE,
           value |-> IF x.ty = "datetime"
                       THEN DatetimeV(ord2ymd(n), x.v[2], x.v[3])
                       ELSE DateV(ord2ymd(n))]

\* A date, a naive datetime, a time or a timedelta as <<days, seconds,
\* microseconds>>.
Moment(x) ==
  CASE x.ty = "date" -> <<ymd2ord(x.v), 0, 0>>
    [] x.ty = "datetime" -> <<ymd2ord(x.v[1]), x.v[2], x.v[3]>>
    [] x.ty = "time" -> <<0, x.v[1], x.v[2]>>
    [] x.ty = "timedelta" -> x.v

\* a < b of two numbers, or of two values of one of the types date, datetime
\* and time.
PyLess(a, b) ==
  IF a.ty \in {"date", "datetime", "time"}
    THEN LET x == Moment(a)
             y == Moment(b)
         IN \/ x[1] < y[1]
            \/ x[1] = y[1] /\ x[2] < y[2]
            \/ x[1] = y[1] /\ x[2] = y[2] /\ x[3] < y[3]
    ELSE Hundredths(a) < Hundredths(b)

\* min(a, b) and max(a, b): the first one wins a tie.
PyMin(a, b) == IF PyLess(b, a) THEN b ELSE a
PyMax(a, b) == IF PyLess(a, b) THEN b ELSE a

\* ------------------------------------------------------------------ strptime
\* One directive of a strptime format matched at position i of s.  alts are
\* the alternatives of its pattern in order, each a sequence of character
\* sets; follow is the character the format has after the directive, 0 when
\* the directive ends it.  The result is the position after the match of the
\* first alternative that fits, 0 when none does.
MatchField(s, i, alts, follow) ==
  LET fits(k) ==
        /\ i + Len(alts[k]) - 1 <= Len(s)
        /\ \A n \in 1..Len(alts[k]) : s[i + n - 1] \in alts[k][n]
        /\ follow # 0 =>
             /\ i + Len(alts[k]) <= Len(s)
             /\ s[i + Len(alts[k])] = follow
  IN IF \E k \in 1..Len(alts) : fits(k)
       THEN i + Len(alts[CHOOSE k \in 1..Len(alts) :
                           fits(k) /\ \A j \in 1..(k - 1) : ~fits(j)])
       ELSE 0

\* datetime.strptime(s, "%H:%M").time(): [ok, value]; ok is FALSE when it
\* raises ValueError.  %H is 2[0-3]|[0-1]\d|\d and %M is [0-5]\d|\d.
ParseTime(s) ==
  LET c == MatchField(s, 1, <<<<{50}, 48..51>>, <<48..49, Decimals>>,
                              <<Decimals>>>>, ord(":"))
      e == IF c = 0 THEN 0
           ELSE MatchField(s, c + 1, <<<<48..53, Decimals>>, <<Decimals>>>>, 0)
  IN IF c # 0 /\ e = Len(s) + 1
       THEN [ok |-> TRUE,
             value |-> TimeV(3600 * Number(s, 1, c) + 60 * Number(s, c + 1, e), 0)]
       ELSE [ok |-> FALSE, value |-> None]

\* datetime.strptime(s, "%Y/%m/%d").date(): [ok, value].  %Y is \d\d\d\d,
\* %m is 1[0-2]|0[1-9]|[1-9] and %d is 3[0-1]|[1-2]\d|0[1-9]|[1-9]| [1-9].
ParseDate(s) ==
  LET a == MatchField(s, 1, <<<<Decimals, Decimals, Decimals, Decimals>>>>,
                      ord("/"))
      b == IF a = 0 THEN 0
           ELSE MatchField(s, a + 1, <<<<{49}, 48..50>>, <<{48}, 49..57>>,
                                       <<49..57>>>>, ord("/"))
      e == IF b = 0 THEN 0
           ELSE MatchField(s, b + 1, <<<<{51}, 48..49>>, <<49..50, Decimals>>,
                                       <<{48}, 49..57>>, <<49..57>>,
                                       <<{32}, 49..57>>>>, 0)
      y == Number(s, 1, a)
      m == Number(s, a + 1, b)
      d == Number(s, b + 1, e)
  IN IF /\ a # 0 /\ b # 0 /\ e = Len(s) + 1
        /\ y >= 1 /\ d <= DaysInMonth(y, m)
       THEN [ok |-> TRUE, value |-> DateV(<<y, m, d>>)]
       ELSE [ok |-> FALSE, value |-> None]

\* ------------------------------------------------------------------ timestamps
\* A number of seconds counted from day 0, as <<day, second of the day>>.
DaySecond(day, s) == <<day + ((s - (s % 86400)) \div 86400), s % 86400>>

\* _datetime_to_micros(dt) of a naive datetime, read in the local time zone,
\* which is utcoffset seconds ahead of UTC at every instant: [ok, value], the
\* value being the microseconds since the epoch (day 719163).  astimezone
\* raises ValueError or OverflowError when the local time, the day before
\* it, the time taken as UTC and moved to the zone, or the UTC time lies
\* outside the years 1 to 9999.
_datetime_to_micros(dt, utcoffset) ==
  LET day == ymd2ord(dt.v[1])
      probe == DaySecond(day, dt.v[2] + utcoffset)
      utc == DaySecond(day, dt.v[2] - utcoffset)
  IN IF day - 1 < 1 \/ probe[1] \notin 1..3652059 \/ utc[1] \notin 1..3652059
       THEN [ok |-> FALSE, value |-> None]
       ELSE [ok |-> TRUE, value |-> MicrosV(utc[1] - 719163, utc[2], dt.v[3])]

\* _micros_to_datetime(micros) with orig_tz None: [ok, value].  The epoch
\* plus the microseconds, or that time in the local zone, outside the years 1
\* to 9999 raises OverflowError.
_micros_to_datetime(micros, utcoffset) ==
  LET utc == micros.v[1] + 719163
      local == DaySecond(utc, micros.v[2] + utcoffset)
  IN IF utc \notin 1..3652059 \/ local[1] \notin 1..3652059
       THEN [ok |-> FALSE, value |-> None]
       ELSE [ok |-> TRUE,
             value |-> DatetimeV(ord2ymd(local[1]), local[2], micros.v[3])]

\* ------------------------------------------------------------------ more widgets
\* DeltaGenerator.selectbox(label, options, index)
selectbox(w, t, d, options, index, ui_value) ==
  LET current_value == IF ui_value # None THEN ui_value.v ELSE index.v
      rv == IF Len(options) > 0 /\ options[current_value + 1] # None
              THEN options[current_value + 1]
              ELSE NoValueClass
      m == IF ~IsInt(index) THEN Marshalled("", None, TRUE)
           ELSE IF Len(options) > 0 /\ ~(0 <= index.v /\ index.v < Len(options))
             THEN Marshalled("", None, TRUE)
           ELSE Marshalled("", rv, FALSE)
  IN with_element(w, t, d, m, "selectbox", <<>>)

\* __check_and_convert_to_indices(options, default_values) of multiselect:
\* [raised, indices], indices being None or the list of (0-based) indices.
_check_and_convert_to_indices(options, default_values0) ==
  LET convertible == \/ default_values0.ty \in {"list", "tuple", "str"}
                     \/ ~Truthy(default_values0)
      default_values ==
        IF default_values0.ty = "list" THEN default_values0.v
        ELSE IF ~Truthy(default_values0) THEN <<default_values0>>
        ELSE PyList(default_values0)
  IN
  IF default_values0 = None /\ ~PyIn(None, options)
    THEN [raised |-> FALSE, indices |-> None]
  \* list(default_values) of a value that is not iterable: TypeError.
  ELSE IF ~convertible THEN [raised |-> TRUE, indices |-> None]
  ELSE IF \E i \in 1..Len(default_values) : ~PyIn(default_values[i], options)
    THEN [raised |-> TRUE, indices |-> None]
  ELSE [raised |-> FALSE,
        indices |-> ListV([i \in 1..Len(default_values) |->
                             IntV(PyIndex(options, default_values[i]))])]

\* DeltaGenerator.multiselect(label, options, default): ui_value is None or
\* the list of indices the widget state holds.
multiselect(w, t, d, options, default, ui_value) ==
  LET indices == _check_and_convert_to_indices(options, default)
      default_value == IF indices.indices = None THEN <<>> ELSE indices.indices.v
      current_value == IF ui_value # None THEN ui_value.v ELSE default_value
      m == IF indices.raised
             THEN Marshalled("", None, TRUE)
             ELSE Marshalled("", ListV([i \in 1..Len(current_value) |->
                                          options[current_value[i].v + 1]]), FALSE)
  IN with_element(w, t, d, m, "multiselect", <<>>)

\* max_value - min_value < timedelta(days=1), for two values that can be
\* subtracted.
SpanUnderOneDay(min_value, max_value) ==
  LET a == Moment(min_value)
      b == Moment(max_value)
      days == b[1] - a[1]
      negative_rest == b[2] < a[2] \/ (b[2] = a[2] /\ b[3] < a[3])
  IN days < 1 \/ (days = 1 /\ negative_rest)

\* int(v) of a float the widget state of a timelike slider holds, as
\* microseconds.
MicrosOf(v) ==
  IF v.ty = "micros" THEN v
  ELSE LET n == PyInt(v).v
           ds == DaySecond(0, n \div 1000000)
       IN MicrosV(ds[1], ds[2], n % 1000000)

\* The body of DeltaGenerator.slider, run as marshall_element.  ui_value is
\* None or the list of floats the widget state holds: hundredths for a slider
\* of numbers, microseconds for one of dates or times.  utcoffset is the
\* offset of the local time zone, a zone without daylight saving time; the
\* dates and times are naive.  Every number the model can write lies within
\* the bounds JSNumber validates.
slider_marshall(min_value0, max_value0, value0, step0, ui_value, utcoffset) ==
  LET value1 == IF value0 = None
                  THEN (IF min_value0 # None THEN min_value0 ELSE IntV(0))
                  ELSE value0
      single_value ==
        value1.ty \in {"bool", "int", "float", "datetime", "date", "time"}
      range_value == value1.ty \in {"list", "tuple"} /\ Len(value1.v) \in {0, 1, 2}
      \* From "Convert dates or times into datetimes" on.
      converted(data_type, value, min_value, max_value) ==
        LET timelike == data_type \in {"datetime", "time", "date"}
            \* _time_to_datetime and _date_to_datetime
            to_datetime(x) ==
              CASE data_type = "time" -> DatetimeV(<<2000, 1, 1>>, x.v[1], x.v[2])
                [] data_type = "date" -> DatetimeV(x.v, 0, 0)
                [] OTHER -> x
            micros == [i \in 1..Len(value) |->
                         _datetime_to_micros(to_datetime(value[i]), utcoffset)]
            min_micros == _datetime_to_micros(to_datetime(min_value), utcoffset)
            max_micros == _datetime_to_micros(to_datetime(max_value), utcoffset)
            current_value0 ==
              IF ui_value # None THEN ui_value.v
              ELSE IF timelike THEN [i \in 1..Len(micros) |-> micros[i].value]
              ELSE value
            datetimes == [i \in 1..Len(current_value0) |->
                            _micros_to_datetime(MicrosOf(current_value0[i]),
                                                utcoffset)]
            current_value ==
              CASE data_type = "int" ->
                     [i \in 1..Len(current_value0) |-> PyInt(current_value0[i])]
                [] data_type = "datetime" ->
                     [i \in 1..Len(datetimes) |-> datetimes[i].value]
                [] data_type = "date" ->
                     [i \in 1..Len(datetimes) |-> DateOf(datetimes[i].value)]
                [] data_type = "time" ->
                     [i \in 1..Len(datetimes) |-> TimeOf(datetimes[i].value)]
                [] OTHER -> current_value0
        IN
        IF timelike /\ (\/ \E i \in 1..Len(micros) : ~micros[i].ok
                        \/ ~min_micros.ok
                        \/ ~max_micros.ok)
          THEN Marshalled("", None, TRUE)
        ELSE IF timelike /\ \E i \in 1..Len(datetimes) : ~datetimes[i].ok
          THEN Marshalled("", None, TRUE)
        \* current_value[0] of an empty list the widget state holds:
        \* IndexError.
        ELSE IF single_value /\ Len(current_value) = 0
          THEN Marshalled("", None, TRUE)
        ELSE Marshalled("", IF single_value THEN current_value[1]
                            ELSE TupleV(current_value), FALSE)
      \* From "Ensure that all arguments are of the same type" on.
      checked(data_type, value, min_value, max_value, step) ==
        LET timelike == data_type \in {"datetime", "time", "date"}
            args == <<min_value, max_value, step>>
            int_args == \A i \in 1..3 : IsInt(args[i])
            float_args == \A i \in 1..3 : IsFloat(args[i])
            timelike_args == /\ timelike
                             /\ step.ty = "timedelta"
                             /\ min_value.ty = max_value.ty
            all_ints == data_type = "int" /\ int_args
            all_floats == data_type = "float" /\ float_args
            all_timelikes == timelike /\ timelike_args
            \* min(value[0], min_value) of a date, datetime or time and a
            \* value of another type: TypeError.
            comparable == timelike => min_value.ty = data_type
            min_value2 == PyMin(min_value, max_value)
            max_value2 == PyMax(min_value2, max_value)
            swapped == PyLess(value[2], value[1])
            value3 == IF Len(value) = 1 THEN value
                      ELSE IF Len(value) = 2
                        THEN (IF swapped THEN <<value[2], value[1]>> ELSE value)
                      ELSE <<min_value2, max_value2>>
        IN
        IF ~int_args /\ ~float_args /\ ~timelike_args
          THEN Marshalled("", None, TRUE)
        ELSE IF ~all_ints /\ ~all_floats /\ ~all_timelikes
          THEN Marshalled("", None, TRUE)
        ELSE IF ~comparable THEN Marshalled("", None, TRUE)
        ELSE converted(data_type, value3,
                       IF Len(value) = 0 THEN min_value2
                       ELSE PyMin(value3[1], min_value2),
                       IF Len(value) = 0 THEN max_value2
                       ELSE PyMax(value3[Len(value3)], max_value2))
      \* From the defaults on.
      typed(data_type, value) ==
        LET \* value[0] - timedelta(days=14) and value[0] + timedelta(days=14)
            datetime_min == IF data_type \in {"datetime", "date"}
                              THEN PlusDays(value[1], 0 - 14)
                              ELSE [ok |-> TRUE, value |-> TimeV(0, 0)]
            datetime_max == IF data_type \in {"datetime", "date"}
                              THEN PlusDays(value[1], 14)
                              ELSE [ok |-> TRUE, value |-> TimeV(86399, 999999)]
            min_value == IF min_value0 # None THEN min_value0
                         ELSE IF data_type = "int" THEN IntV(0)
                         ELSE IF data_type = "float" THEN FloatV(0)
                         ELSE datetime_min.value
            max_value == IF max_value0 # None THEN max_value0
                         ELSE IF data_type = "int" THEN IntV(100)
                         ELSE IF data_type = "float" THEN FloatV(100)
                         ELSE datetime_max.value
            \* max_value - min_value < timedelta(days=1) raises TypeError
            \* unless both are dates, both datetimes or both timedeltas.
            subtractable == /\ min_value.ty = max_value.ty
                            /\ min_value.ty \in {"date", "datetime", "timedelta"}
            step == IF step0 # None THEN step0
                    ELSE IF data_type = "int" THEN IntV(1)
                    ELSE IF data_type = "float" THEN FloatV(1)
                    ELSE IF data_type = "time" THEN TimedeltaV(0, 900, 0)
                    ELSE IF SpanUnderOneDay(min_value, max_value)
                      THEN TimedeltaV(0, 900, 0)
                    ELSE TimedeltaV(1, 0, 0)
        IN
        IF ~datetime_min.ok \/ ~datetime_max.ok THEN Marshalled("", None, TRUE)
        ELSE IF step0 = None /\ data_type \in {"datetime", "date"}
                /\ ~subtractable
          THEN Marshalled("", None, TRUE)
        ELSE checked(data_type, value, min_value, max_value, step)
      \* From "Simplify future logic by always making value a list" on.
      listed(value) ==
        IF \E i, j \in 1..Len(value) : value[i].ty # value[j].ty
          THEN Marshalled("", None, TRUE)
        \* SUPPORTED_TYPES[type(value[0])]: KeyError for any other type.
        ELSE IF /\ Len(value) > 0
                /\ value[1].ty \notin {"int", "float", "datetime", "date", "time"}
          THEN Marshalled("", None, TRUE)
        ELSE typed(IF Len(value) = 0 THEN "int" ELSE value[1].ty, value)
  IN
  IF ~single_value /\ ~range_value THEN Marshalled("", None, TRUE)
  ELSE listed(IF single_value THEN <<value1>> ELSE value1.v)

\* DeltaGenerator.slider(label, min_value, max_value, value, step)
slider(w, t, d, min_value, max_value, value, step, ui_value, utcoffset) ==
  with_element(w, t, d,
               slider_marshall(min_value, max_value, value, step, ui_value,
                               utcoffset),
               "slider", <<>>)

\* The encoding keyword of file_uploader when it is not passed.
NoEncoding == Val("absent", 0)

\* DeltaGenerator.file_uploader(label, type, encoding=...):
\* show_deprecation_warning is the config option
\* deprecation.showfileUploaderEncoding, files is what
\* ctx.uploaded_file_mgr.get_files finds for the widget (None or a sequence
\* of file data).
file_uploader(w, t, d, encoding, show_deprecation_warning, files) ==
  LET has_encoding == encoding # NoEncoding
      shows == IF show_deprecation_warning
                  /\ ((has_encoding /\ encoding # None) \/ ~has_encoding)
                 THEN "dg.exception"
                 ELSE ""
      found == IF get_report_ctx(t) # NoCtx THEN files ELSE None
      m == IF found = None THEN Marshalled(shows, NoValueClass, FALSE)
           \* file_datas[0] of an empty list: IndexError.
           ELSE IF Len(found.v) = 0 THEN Marshalled(shows, None, TRUE)
           ELSE Marshalled(shows, found.v[1], FALSE)
  IN with_element(w, t, d, m, "file_uploader", <<>>)

\* re.match(r"^#(?:[0-9a-fA-F]{3}){1,2}$", s): $ also matches before one
\* trailing newline.
IsHexColor(s) ==
  LET n == IF Len(s) > 0 /\ s[Len(s)] = 10 THEN Len(s) - 1 ELSE Len(s)
  IN /\ n \in {4, 7}
     /\ s[1] = ord("#")
     /\ \A i \in 2..n : s[i] \in Chars("0123456789abcdefABCDEF")

\* DeltaGenerator.beta_color_picker(label, value)
beta_color_picker(w, t, d, value0, ui_value) ==
  LET value == IF value0 = None THEN StrV(Str("#000000")) ELSE value0
      current_value == IF ui_value # None THEN ui_value ELSE value
      m == IF value.ty # "str" THEN Marshalled("", None, TRUE)
           ELSE IF ~IsHexColor(value.v) THEN Marshalled("", None, TRUE)
           ELSE Marshalled("", StrV(PyStr(current_value)), FALSE)
  IN with_element(w, t, d, m, "beta_color_picker", <<>>)

\* DeltaGenerator.text_input(label, value, type=type)
text_input(w, t, d, value, type, ui_value) ==
  LET current_value == IF ui_value # None THEN ui_value ELSE value
      m == IF type \notin {StrV(Str("default")), StrV(Str("password"))}
             THEN Marshalled("", None, TRUE)
             ELSE Marshalled("", StrV(PyStr(current_value)), FALSE)
  IN with_element(w, t, d, m, "text_input", <<>>)

\* DeltaGenerator.text_area(label, value)
text_area(w, t, d, value, ui_value) ==
  LET current_value == IF ui_value # None THEN ui_value ELSE value
  IN with_element(w, t, d, Marshalled("", StrV(PyStr(current_value)), FALSE),
                  "text_area", <<>>)

\* DeltaGenerator.time_input(label, value): now is what datetime.now()
\* returns, ui_value is None or the string the widget state holds.
time_input(w, t, d, value0, now, ui_value) ==
  LET value == IF value0 = None THEN TimeOf(now) ELSE value0
      parsed == ParseTime(ui_value.v)
      m == IF value.ty \notin {"datetime", "time"} THEN Marshalled("", None, TRUE)
           ELSE IF ui_value = None THEN Marshalled("", TimeOf(value), FALSE)
           ELSE IF ~parsed.ok THEN Marshalled("", None, TRUE)
           ELSE Marshalled("", parsed.value, FALSE)
  IN with_element(w, t, d, m, "time_input", <<>>)

\* datetime.min
DatetimeMin == DatetimeV(<<1, 1, 1>>, 0, 0)

\* The body of DeltaGenerator.date_input, run as marshall_element: now is
\* what datetime.now() returns, today what date.today() returns, ui_value is
\* None or the list of strings the widget state holds.
date_input_marshall(value0, min_value, max_value, now, today, ui_value) ==
  LET value1 == IF value0 = None THEN DateOf(now) ELSE value0
      single_value == IsDate(value1)
      range_value == value1.ty \in {"list", "tuple"} /\ Len(value1.v) \in {0, 1, 2}
      value2 == IF single_value THEN <<value1>> ELSE value1.v
      value3 == [i \in 1..Len(value2) |-> DateOf(value2[i])]
      parsed == [i \in 1..Len(ui_value.v) |-> ParseDate(ui_value.v[i].v)]
      value == IF ui_value # None
                 THEN [i \in 1..Len(parsed) |-> parsed[i].value]
                 ELSE value3
  IN
  IF ~single_value /\ ~range_value THEN Marshalled("", None, TRUE)
  \* date.strftime(v, "%Y/%m/%d") of a value that is no date: TypeError.
  ELSE IF \E i \in 1..Len(value3) : ~IsDate(value3[i])
    THEN Marshalled("", None, TRUE)
  ELSE IF ~IsDate(min_value) THEN Marshalled("", None, TRUE)
  \* date(today.year + 10, today.month, today.day): ValueError for a year
  \* after 9999 and for the 29th of February, ten years after a leap year.
  ELSE IF max_value = None
          /\ (today.v[1] + 10 > 9999 \/ (today.v[2] = 2 /\ today.v[3] = 29))
    THEN Marshalled("", None, TRUE)
  ELSE IF max_value # None /\ ~IsDate(max_value) THEN Marshalled("", None, TRUE)
  ELSE IF ui_value # None /\ \E i \in 1..Len(parsed) : ~parsed[i].ok
    THEN Marshalled("", None, TRUE)
  \* value[0] of an empty list the widget state holds: IndexError.
  ELSE IF single_value /\ Len(value) = 0 THEN Marshalled("", None, TRUE)
  ELSE Marshalled("", IF single_value THEN value[1] ELSE TupleV(value), FALSE)

\* DeltaGenerator.date_input(label, value, min_value, max_value)
date_input(w, t, d, value, min_value, max_value, now, today, ui_value) ==
  with_element(w, t, d,
               date_input_marshall(value, min_value, max_value, now, today,
                                   ui_value),
               "date_input", <<>>)

\* ------------------------------------------------------------------ more elements
\* DeltaGenerator.dataframe(data, width, height): not wrapped by
\* _with_element, it hands width and height on for the message's
\* element_dimension_spec.
dataframe(w, t, d, data, width, height) ==
  _enqueue_new_element_delta(w, t, d, Marshalled("", None, FALSE), "dataframe",
                             None, width, height)

\* DeltaGenerator.table(data)
table(w, t, d, data) ==
  with_element(w, t, d, Marshalled("", None, FALSE), "table", <<data>>)

\* DeltaGenerator.altair_chart(altair_chart, width)
altair_chart(w, t, d, width) ==
  with_element(w, t, d,
               Marshalled(IF width # 0 THEN "st.warning" ELSE "", None, FALSE),
               "altair_chart", <<>>)

\* DeltaGenerator.graphviz_chart(figure_or_dot, width, height): one warning
\* whichever of width and height is deprecated.
graphviz_chart(w, t, d, width, height) ==
  LET shows == IF width # 0 /\ height # 0 THEN "st.warning"
               ELSE IF width # 0 THEN "st.warning"
               ELSE IF height # 0 THEN "st.warning"
               ELSE ""
  IN with_element(w, t, d, Marshalled(shows, None, FALSE), "graphviz_chart", <<>>)

\* DeltaGenerator.plotly_chart(figure_or_data, width, height)
plotly_chart(w, t, d, width, height) ==
  LET shows == IF width # 0 /\ height # 0 THEN "st.warning"
               ELSE IF width # 0 THEN "st.warning"
               ELSE IF height # 0 THEN "st.warning"
               ELSE ""
  IN with_element(w, t, d, Marshalled(shows, None, FALSE), "plotly_chart", <<>>)

\* DeltaGenerator.pyplot(fig)
pyplot(w, t, d) == with_element(w, t, d, Marshalled("", None, FALSE), "pyplot", <<>>)

\* DeltaGenerator.bokeh_chart(figure)
bokeh_chart(w, t, d) ==
  with_element(w, t, d, Marshalled("", None, FALSE), "bokeh_chart", <<>>)

\* DeltaGenerator.image(image, width=width, use_column_width=...)
image(w, t, d, width, use_column_width) ==
  LET m == IF ~use_column_width /\ width # None /\ width.v <= 0
             THEN Marshalled("", None, TRUE)
             ELSE Marshalled("", None, FALSE)
  IN with_element(w, t, d, m, "image", <<>>)

\* DeltaGenerator._iframe(src): the element type handed on is the method's
\* name.
_iframe(w, t, d) == with_element(w, t, d, Marshalled("", None, FALSE), "_iframe", <<>>)

\* DeltaGenerator._html(html)
_html(w, t, d) == with_element(w, t, d, Marshalled("", None, FALSE), "_html", <<>>)

\* DeltaGenerator.favicon(element, image): the method is not wrapped by
\* _with_element, so its first argument is taken as the element and nothing
\* is enqueued; called with the image alone it raises TypeError.
favicon(w, t, d, with_element_argument) ==
  IF with_element_argument
    THEN Outcome(w, None, FALSE)
    ELSE Outcome(w, None, TRUE)

\* DeltaGenerator.audio(data)
audio(w, t, d) == with_element(w, t, d, Marshalled("", None, FALSE), "audio", <<>>)

\* DeltaGenerator.video(data)
video(w, t, d) == with_element(w, t, d, Marshalled("", None, FALSE), "video", <<>>)

\* DeltaGenerator.progress(value)
progress(w, t, d, value) ==
  LET m == IF IsFloat(value)
             THEN (IF 0 <= value.v /\ value.v <= 100
                     THEN Marshalled("", None, FALSE)
                     ELSE Marshalled("", None, TRUE))
           ELSE IF IsInt(value)
             THEN (IF 0 <= value.v /\ value.v <= 100
                     THEN Marshalled("", None, FALSE)
                     ELSE Marshalled("", None, TRUE))
           ELSE Marshalled("", None, TRUE)
  IN with_element(w, t, d, m, "progress", <<>>)

\* DeltaGenerator.map(data)
map(w, t, d) == with_element(w, t, d, Marshalled("", None, FALSE), "map", <<>>)

\* DeltaGenerator.deck_gl_chart(spec): warns unless the config option
\* global.suppressDeprecationWarnings is set.
deck_gl_chart(w, t, d, suppress_deprecation_warning) ==
  with_element(w, t, d,
               Marshalled(IF ~suppress_deprecation_warning THEN "st.warning"
                          ELSE "", None, FALSE),
               "deck_gl_chart", <<>>)

\* DeltaGenerator.pydeck_chart(pydeck_obj)
pydeck_chart(w, t, d) ==
  with_element(w, t, d, Marshalled("", None, FALSE), "pydeck_chart", <<>>)

\* DeltaGenerator.__getattr__(name)(...): a method the class does not define
\* raises StreamlitAPIException.
getattr_wrapper(w, t, d) == Outcome(w, None, TRUE)

\* ------------------------------------------------------------------ add_rows
\* _maybe_melt_data_for_add_rows: the new last_index.  Data with a RangeIndex
\* of k rows is re-indexed to start after last_index.
MeltedLastIndex(data, delta_type, last_index) ==
  IF delta_type \in DELTAS_TYPES_THAT_MELT_DATAFRAMES
    THEN IntV(last_index.v + 1 + data.v - 1)
    ELSE last_index

\* add_rows without the check that the cursor is locked, reading absent
\* props as "" and None.
add_rows_any_cursor(w, t, d, data0, kwargs) ==
  LET dg == w.dgs[d]
      c == IF dg.container = NoContainer THEN 0 ELSE CursorOf(w, t, d)
      cur == w.cursors[c]
      data == IF data0 # None /\ Len(kwargs) = 0 THEN data0 ELSE kwargs[1]
      \* getattr(self, st_method_name)(data): the data is passed by position
      \* and what the method returns is dropped.
      unreturned(o) == Outcome(o.w, None, o.raised)
      st_method ==
        CASE cur.delta_type = "area_chart" ->
               unreturned(area_chart(w, t, d, data, TRUE))
          [] cur.delta_type = "bar_chart" ->
               unreturned(bar_chart(w, t, d, data, TRUE))
          [] OTHER -> unreturned(line_chart(w, t, d, data, TRUE))
      w1 == [w EXCEPT !.cursors[c].last_index =
               MeltedLastIndex(data, cur.delta_type, cur.last_index)]
      msg == ForwardMsg(dg.container, cur.path, cur.index, "add_rows", "", c)
      e == _enqueue_message(w1, t, msg)
  IN
  IF dg.container = NoContainer \/ c = 0 THEN Outcome(w, DgV(d), FALSE)
  ELSE IF ~(data0 # None /\ Len(kwargs) = 0) /\ Len(kwargs) # 1
    THEN Outcome(w, None, TRUE)
  ELSE IF cur.delta_type \in DELTAS_TYPES_THAT_MELT_DATAFRAMES
          /\ cur.last_index = None
    THEN st_method
  ELSE IF e.raised THEN Outcome(w1, None, TRUE)
  ELSE Outcome(e.w, DgV(d), FALSE)

\* DeltaGenerator.add_rows(data, **kwargs): kwargs is the sequence of the
\* keyword datasets.
add_rows(w, t, d, data0, kwargs) ==
  LET dg == w.dgs[d]
      c == IF dg.container = NoContainer THEN 0 ELSE CursorOf(w, t, d)
      cur == w.cursors[c]
      data == IF data0 # None /\ Len(kwargs) = 0 THEN data0 ELSE kwargs[1]
      \* getattr(self, st_method_name)(data): the data is passed by position
      \* and what the method returns is dropped.
      unreturned(o) == Outcome(o.w, None, o.raised)
      st_method ==
        CASE cur.delta_type = "area_chart" ->
               unreturned(area_chart(w, t, d, data, TRUE))
          [] cur.delta_type = "bar_chart" ->
               unreturned(bar_chart(w, t, d, data, TRUE))
          [] OTHER -> unreturned(line_chart(w, t, d, data, TRUE))
      w1 == [w EXCEPT !.cursors[c].last_index =
               MeltedLastIndex(data, cur.delta_type, cur.last_index)]
      msg == ForwardMsg(dg.container, cur.path, cur.index, "add_rows", "", c)
      e == _enqueue_message(w1, t, msg)
  IN
  IF dg.container = NoContainer \/ c = 0 THEN Outcome(w, DgV(d), FALSE)
  ELSE IF ~cur.locked THEN Outcome(w, None, TRUE)
  ELSE IF ~(data0 # None /\ Len(kwargs) = 0) /\ Len(kwargs) # 1
    THEN Outcome(w, None, TRUE)
  \* self._cursor.props["delta_type"]: KeyError on a cursor without props.
  ELSE IF ~cur.has_props THEN Outcome(w, None, TRUE)
  ELSE IF cur.delta_type \in DELTAS_TYPES_THAT_MELT_DATAFRAMES
          /\ cur.last_index = None
    THEN st_method
  ELSE IF e.raised THEN Outcome(w1, None, TRUE)
  ELSE Outcome(e.w, DgV(d), FALSE)

\* ------------------------------------------------------------------ state
VARIABLES
  cursors,    \* the heap of cursor objects
  dgs,        \* the heap of DeltaGenerator objects
  queues,     \* per session, the messages handed to ctx.enqueue, in order
  cache_info, \* per thread, caching._cache_info
  nops,       \* the number of calls made so far
  last,       \* the last call: what was called, by whom, on what, its outcome
  cursor_api  \* how the cursor module at hand takes get_locked_cursor's arguments

vars == <<cursors, dgs, queues, cache_info, nops, last, cursor_api>>

W == World(cursors, dgs, queues, cache_info)

Init ==
  /\ cursors = [i \in 1..4 |-> RunningCursor(<<>>)]
  /\ dgs = <<DeltaGenerator("MAIN", 0, Shared),
             DeltaGenerator("SIDEBAR", 0, Shared),
             DeltaGenerator(NoContainer, 0, Shared)>>
  /\ queues = [s \in Sessions |-> <<>>]
  /\ cache_info = [t \in Threads |-> CacheInfo(0, 0)]
  /\ nops = 0
  /\ last = [op |-> "init", t |-> NoCtx, d |-> 0, args |-> <<>>,
             ret |-> None, raised |-> FALSE]
  /\ cursor_api \in CursorApis

\* Thread t can call a method of generator d: it is a module-level generator
\* or one that a call of t returned.
CanCall(t, d) ==
  /\ d \in 1..Len(dgs)
  /\ dgs[d].holder \in {Shared, t}

\* The call op of thread t on generator d with arguments args had outcome o.
Apply(op, t, d, args, o) ==
  /\ cursors' = Collect(W, o).w.cursors
  /\ dgs' = Collect(W, o).w.dgs
  /\ queues' = Collect(W, o).w.queues
  /\ cache_info' = Collect(W, o).w.cache_info
  /\ nops' = nops + 1
  /\ last' = [op |-> op, t |-> t, d |-> d, args |-> args,
              ret |-> o.ret, raised |-> o.raised]
  /\ cursor_api' = cursor_api

\* ------------------------------------------------------------------ inputs
Widths == {0, 100}
Datas == {None, DfV(1)}
Kwargs == {<<>>, <<DfV(1)>>, <<DfV(1), DfV(1)>>}

\* The threads that make calls: the script thread of session 1 and a thread
\* without a report context.
Callers == {1, NoCtx}

\* ------------------------------------------------------------------ actions
\* Thread t starts to run a function decorated with st.cache, while calls
\* remain to be made (fewer than max_ops so far).  A cached function called
\* from within a cached function changes nothing in what is shown and is
\* left out.
EnterCachedFunc(t, max_ops) ==
  /\ nops < max_ops
  /\ cache_info[t].within_cached_func_stack = 0
  /\ cache_info' = [cache_info EXCEPT ![t].within_cached_func_stack = @ + 1]
  /\ UNCHANGED <<cursors, dgs, queues, nops, last, cursor_api>>

\* The cached function that thread t runs returns.
ExitCachedFunc(t, max_ops) ==
  /\ nops < max_ops
  /\ cache_info[t].within_cached_func_stack > 0
  /\ cache_info' = [cache_info EXCEPT ![t].within_cached_func_stack = @ - 1]
  /\ UNCHANGED <<cursors, dgs, queues, nops, last, cursor_api>>

Empty(t, d) ==
  /\ nops < MaxOps /\ CanCall(t, d)
  /\ Apply("empty", t, d, <<>>, empty(W, t, d))

Text(t, d) ==
  /\ nops < MaxOps /\ CanCall(t, d)
  /\ Apply("text", t, d, <<>>, text(W, t, d))

VegaLiteChart(t, d) ==
  /\ nops < MaxOps /\ CanCall(t, d)
  /\ \E width \in Widths :
       Apply("vega_lite_chart", t, d, [width |-> width],
             vega_lite_chart(W, t, d, width))

\* The data is passed by position or as data=...
LineChart(t, d) ==
  /\ nops < MaxOps /\ CanCall(t, d)
  /\ \E data \in Datas, positional \in BOOLEAN :
       Apply("line_chart", t, d, [data |-> data, positional |-> positional],
             line_chart(W, t, d, data, positional))

Block(t, d) ==
  /\ nops < MaxOps /\ CanCall(t, d)
  /\ Apply("_block", t, d, <<>>, _block(W, t, d, cursor_api))

AddRows(t, d) ==
  /\ nops < MaxOps /\ CanCall(t, d)
  /\ \E data \in Datas, kwargs \in Kwargs :
       Apply("add_rows", t, d, [data |-> data, kwargs |-> kwargs],
             add_rows(W, t, d, data, kwargs))

\* A thread without report context shows nothing, within a cached function
\* or not: the script thread is the one that enters and leaves them.
Next ==
  \/ \E t \in Callers, d \in 1..(3 + MaxOps) :
       \/ Empty(t, d)
       \/ Text(t, d)
       \/ VegaLiteChart(t, d)
       \/ LineChart(t, d)
       \/ Block(t, d)
       \/ AddRows(t, d)
  \/ EnterCachedFunc(1, MaxOps)
  \/ ExitCachedFunc(1, MaxOps)

Spec == Init /\ [][Next]_vars

\* ------------------------------------------------------------------ widgets
Checkbox(t, d) ==
  /\ nops < MaxWidgetOps /\ CanCall(t, d)
  /\ \E value \in {BoolV(FALSE), BoolV(TRUE), TimedeltaV(0, 0, 0),
                   TimedeltaV(1, 0, 0)},
        ui_value \in {None, BoolV(FALSE), BoolV(TRUE)} :
       Apply("checkbox", t, d, [value |-> value, ui_value |-> ui_value],
             checkbox(W, t, d, value, ui_value))

Radio(t, d) ==
  /\ nops < MaxWidgetOps /\ CanCall(t, d)
  /\ \E options \in {<<>>, <<None, IntV(0)>>, <<StrV(<<>>), ListV(<<>>)>>},
        index \in {IntV(0), IntV(1), IntV(2), FloatV(0)} :
       \E ui_value \in {None} \cup {IntV(i) : i \in 0..(Len(options) - 1)} :
         Apply("radio", t, d,
               [options |-> options, index |-> index, ui_value |-> ui_value],
               radio(W, t, d, options, index, ui_value))

\* Formats other than the default and "%d" are tried without bounds: the
\* text "None", formats with a blank before or after the conversion (a
\* vertical tab, a no-break space), and formats that do not take one number.
NumberInput(t, d) ==
  /\ nops < MaxWidgetOps /\ CanCall(t, d)
  /\ \E min_value \in {None, IntV(0), IntV(1), FloatV(0), TimedeltaV(0, 0, 0),
                       TimedeltaV(1, 0, 0)},
        max_value \in {None, IntV(0)},
        value \in {NoValueInstance, None, IntV(0 - 1), IntV(1), FloatV(150)},
        format \in {None, StrV(Str("%d")), StrV(Str("%s")), StrV(Str("%s%s")),
                    StrV(Str("None")), StrV(<<11>> \o Str("%d")),
                    StrV(Str("%d") \o <<160>>), StrV(Str("%d") \o <<28>>)} :
       /\ format \notin {None, StrV(Str("%d"))}
            => (min_value = None /\ max_value = None)
       /\ Apply("number_input", t, d,
                [min_value |-> min_value, max_value |-> max_value,
                 value |-> value, format |-> format,
                 default |-> NumberInputDefault(min_value, value)],
                number_input(W, t, d, min_value, max_value, value, None,
                             format, None))

\* A non-widget element next to the widgets.
EmptyW(t, d) ==
  /\ nops < MaxWidgetOps /\ CanCall(t, d)
  /\ Apply("empty", t, d, <<>>, empty(W, t, d))

\* st.text next to the widgets.
TextW(t, d) ==
  /\ nops < MaxWidgetOps /\ CanCall(t, d)
  /\ Apply("text", t, d, <<>>, text(W, t, d))

Selectbox(t, d) ==
  /\ nops < MaxWidgetOps /\ CanCall(t, d)
  /\ \E options \in {<<>>, <<None, IntV(0)>>},
        index \in {IntV(0), IntV(2), StrV(Str("0"))} :
       \E ui_value \in {None} \cup {IntV(i) : i \in 1..(Len(options) - 1)} :
         Apply("selectbox", t, d,
               [options |-> options, index |-> index, ui_value |-> ui_value],
               selectbox(W, t, d, options, index, ui_value))

\* A state of the widget is tried with the default selection.
Multiselect(t, d) ==
  /\ nops < MaxWidgetOps /\ CanCall(t, d)
  /\ \E options \in {<<StrV(Str("a")), StrV(Str("b"))>>, <<None, IntV(0)>>,
                     <<TimedeltaV(1, 0, 0), TimedeltaV(0, 0, 0)>>},
        default \in {None, ListV(<<>>), ListV(<<StrV(Str("b"))>>),
                     StrV(Str("ba")), IntV(0), IntV(5), TimedeltaV(0, 0, 0),
                     TimedeltaV(1, 0, 0)},
        ui_value \in {None, ListV(<<IntV(1)>>)} :
       /\ ui_value # None => default = None
       /\ Apply("multiselect", t, d,
                [options |-> options, default |-> default, ui_value |-> ui_value],
                multiselect(W, t, d, options, default, ui_value))

\* Sliders of numbers, and sliders of times, dates and datetimes in a local
\* zone at, ahead of and behind UTC.  A state of the widget is tried with the
\* default bounds; bounds of dates with a date as the value.
Slider(t, d) ==
  /\ nops < MaxWidgetOps /\ CanCall(t, d)
  /\ \E bounds \in {<<None, None>>, <<IntV(5), IntV(3)>>, <<FloatV(0), None>>,
                    <<DateV(<<2020, 1, 1>>), DateV(<<2020, 1, 1>>)>>,
                    <<DateV(<<2020, 1, 1>>),
                      DatetimeV(<<2020, 3, 1>>, 0, 0)>>},
        value \in {None, IntV(7), FloatV(50), ListV(<<>>),
                   TupleV(<<IntV(9), IntV(1)>>), BoolV(TRUE),
                   TimeV(36000, 0), DateV(<<2020, 1, 5>>),
                   DatetimeV(<<2020, 1, 1>>, 34200, 250000),
                   TupleV(<<DateV(<<2020, 2, 1>>), DateV(<<2020, 1, 5>>)>>),
                   DateV(<<1, 1, 14>>), DateV(<<1, 1, 15>>),
                   DatetimeV(<<9999, 12, 17>>, 82800, 0)},
        ui_value \in {None, ListV(<<FloatV(250)>>),
                      ListV(<<MicrosV(18262, 3600, 5)>>)},
        utcoffset \in {0, 3600, 0 - 18000} :
       /\ ui_value # None => bounds = <<None, None>>
       /\ bounds[1] # None /\ bounds[1].ty = "date" => value = DateV(<<2020, 1, 5>>)
       /\ ui_value # None /\ ui_value.v[1].ty = "micros"
            => value # None /\ value.ty \in {"time", "date", "datetime"}
       /\ Apply("slider", t, d,
                [min_value |-> bounds[1], max_value |-> bounds[2],
                 value |-> value, ui_value |-> ui_value, utcoffset |-> utcoffset],
                slider(W, t, d, bounds[1], bounds[2], value, None, ui_value,
                       utcoffset))

FileUploader(t, d) ==
  /\ nops < MaxWidgetOps /\ CanCall(t, d)
  /\ \E encoding \in {NoEncoding, None, StrV(Str("utf-8"))},
        show_deprecation_warning \in BOOLEAN,
        files \in {None, ListV(<<>>), ListV(<<FileV(1), FileV(2)>>)} :
       Apply("file_uploader", t, d,
             [encoding |-> encoding,
              show_deprecation_warning |-> show_deprecation_warning,
              files |-> files],
             file_uploader(W, t, d, encoding, show_deprecation_warning, files))

BetaColorPicker(t, d) ==
  /\ nops < MaxWidgetOps /\ CanCall(t, d)
  /\ \E value \in {None, StrV(Str("#fff")), StrV(Str("#ffff")),
                   StrV(Str("#00ff00") \o <<10>>), IntV(0)},
        ui_value \in {None, StrV(Str("#123456"))} :
       Apply("beta_color_picker", t, d,
             [value |-> value, ui_value |-> ui_value],
             beta_color_picker(W, t, d, value, ui_value))

TextInput(t, d) ==
  /\ nops < MaxWidgetOps /\ CanCall(t, d)
  /\ \E value \in {StrV(<<>>), FloatV(150)},
        type \in {StrV(Str("default")), StrV(Str("password")), StrV(Str("text"))},
        ui_value \in {None, StrV(Str("typed"))} :
       Apply("text_input", t, d,
             [value |-> value, type |-> type, ui_value |-> ui_value],
             text_input(W, t, d, value, type, ui_value))

TextArea(t, d) ==
  /\ nops < MaxWidgetOps /\ CanCall(t, d)
  /\ \E value \in {StrV(<<>>), None, IntV(0 - 3)},
        ui_value \in {None, StrV(Str("typed"))} :
       Apply("text_area", t, d, [value |-> value, ui_value |-> ui_value],
             text_area(W, t, d, value, ui_value))

TimeInput(t, d) ==
  /\ nops < MaxWidgetOps /\ CanCall(t, d)
  /\ \E value \in {None, TimeV(3600, 0), DatetimeV(<<2020, 1, 2>>, 7200, 0),
                   StrV(Str("10:00"))},
        now \in {DatetimeV(<<2020, 12, 31>>, 86399, 999999)},
        ui_value \in {None, StrV(Str("09:05")), StrV(Str("24:00")),
                      StrV(Str("9:5")), StrV(Str("09:5 "))} :
       Apply("time_input", t, d,
             [value |-> value, now |-> now, ui_value |-> ui_value],
             time_input(W, t, d, value, now, ui_value))

\* Bounds other than the defaults are tried with the default value.
DateInput(t, d) ==
  /\ nops < MaxWidgetOps /\ CanCall(t, d)
  /\ \E value \in {None, DateV(<<2020, 1, 2>>),
                   DatetimeV(<<2020, 1, 2>>, 7200, 0), ListV(<<>>),
                   TupleV(<<DateV(<<2020, 1, 2>>),
                            DatetimeV(<<2020, 1, 9>>, 0, 0)>>),
                   IntV(0)},
        bounds \in {<<DatetimeMin, None>>,
                    <<DatetimeMin, DateV(<<2030, 1, 1>>)>>,
                    <<None, None>>,
                    <<DatetimeMin, StrV(Str("2030/01/01"))>>},
        now \in {DatetimeV(<<2020, 12, 31>>, 86399, 999999)},
        today \in {DateV(<<2020, 2, 29>>), DateV(<<2021, 1, 1>>),
                   DateV(<<9990, 1, 1>>)},
        ui_value \in {None, ListV(<<StrV(Str("2020/02/30"))>>),
                      ListV(<<StrV(Str("2020/1/5"))>>),
                      ListV(<<StrV(Str("2020/01/ 5"))>>)} :
       /\ bounds \notin {<<DatetimeMin, None>>,
                         <<DatetimeMin, DateV(<<2030, 1, 1>>)>>}
            => (value = None /\ ui_value = None)
       /\ Apply("date_input", t, d,
                [value |-> value, min_value |-> bounds[1],
                 max_value |-> bounds[2], now |-> now, today |-> today,
                 ui_value |-> ui_value],
                date_input(W, t, d, value, bounds[1], bounds[2], now, today,
                           ui_value))

NextWidgets ==
  \/ \E t \in Callers, d \in {MainDg, NullDg} :
       \/ EmptyW(t, d)
       \/ TextW(t, d)
       \/ Checkbox(t, d)
       \/ Radio(t, d)
       \/ NumberInput(t, d)
       \/ Selectbox(t, d)
       \/ Multiselect(t, d)
       \/ Slider(t, d)
       \/ FileUploader(t, d)
       \/ BetaColorPicker(t, d)
       \/ TextInput(t, d)
       \/ TextArea(t, d)
       \/ TimeInput(t, d)
       \/ DateInput(t, d)
  \/ EnterCachedFunc(1, MaxWidgetOps)
  \/ ExitCachedFunc(1, MaxWidgetOps)

SpecWidgets == Init /\ [][NextWidgets]_vars

\* ------------------------------------------------------------------ all elements
\* The call op of thread t on generator d, within the calls of SpecElements.
CallE(op, t, d, args, o) ==
  /\ nops < MaxElementOps /\ CanCall(t, d)
  /\ Apply(op, t, d, args, o)

\* Every element method, _block, add_rows and a method that does not exist,
\* called in any order, within a cached function or not.
NextElements ==
  \/ \E t \in Callers, d \in 1..(3 + MaxElementOps) :
       \/ CallE("empty", t, d, <<>>, empty(W, t, d))
       \/ CallE("text", t, d, <<>>, text(W, t, d))
       \/ \E data \in Datas, dims \in {<<None, None>>, <<IntV(100), IntV(50)>>} :
            CallE("dataframe", t, d,
                  [data |-> data, width |-> dims[1], height |-> dims[2]],
                  dataframe(W, t, d, data, dims[1], dims[2]))
       \/ \E data \in Datas :
            CallE("table", t, d, [data |-> data], table(W, t, d, data))
       \/ \E data \in Datas, positional \in BOOLEAN :
            CallE("line_chart", t, d, [data |-> data, positional |-> positional],
                  line_chart(W, t, d, data, positional))
       \/ \E data \in Datas, positional \in BOOLEAN :
            CallE("area_chart", t, d, [data |-> data, positional |-> positional],
                  area_chart(W, t, d, data, positional))
       \/ \E data \in Datas, positional \in BOOLEAN :
            CallE("bar_chart", t, d, [data |-> data, positional |-> positional],
                  bar_chart(W, t, d, data, positional))
       \/ \E width \in Widths :
            CallE("vega_lite_chart", t, d, [width |-> width],
                  vega_lite_chart(W, t, d, width))
       \/ \E width \in Widths :
            CallE("altair_chart", t, d, [width |-> width],
                  altair_chart(W, t, d, width))
       \/ \E width \in Widths, height \in Widths :
            CallE("graphviz_chart", t, d, [width |-> width, height |-> height],
                  graphviz_chart(W, t, d, width, height))
       \/ \E width \in Widths, height \in Widths :
            CallE("plotly_chart", t, d, [width |-> width, height |-> height],
                  plotly_chart(W, t, d, width, height))
       \/ CallE("pyplot", t, d, <<>>, pyplot(W, t, d))
       \/ CallE("bokeh_chart", t, d, <<>>, bokeh_chart(W, t, d))
       \/ \E width \in {None, IntV(0), IntV(50)}, use_column_width \in BOOLEAN :
            CallE("image", t, d,
                  [width |-> width, use_column_width |-> use_column_width],
                  image(W, t, d, width, use_column_width))
       \/ CallE("_iframe", t, d, <<>>, _iframe(W, t, d))
       \/ CallE("_html", t, d, <<>>, _html(W, t, d))
       \/ \E with_element_argument \in BOOLEAN :
            CallE("favicon", t, d,
                  [with_element_argument |-> with_element_argument],
                  favicon(W, t, d, with_element_argument))
       \/ CallE("audio", t, d, <<>>, audio(W, t, d))
       \/ CallE("video", t, d, <<>>, video(W, t, d))
       \/ \E value \in {IntV(50), IntV(101), FloatV(50), FloatV(150), BoolV(TRUE),
                         StrV(Str("50"))} :
            CallE("progress", t, d, [value |-> value], progress(W, t, d, value))
       \/ CallE("map", t, d, <<>>, map(W, t, d))
       \/ \E suppress_deprecation_warning \in BOOLEAN :
            CallE("deck_gl_chart", t, d,
                  [suppress_deprecation_warning |-> suppress_deprecation_warning],
                  deck_gl_chart(W, t, d, suppress_deprecation_warning))
       \/ CallE("pydeck_chart", t, d, <<>>, pydeck_chart(W, t, d))
       \/ CallE("__getattr__", t, d, <<>>, getattr_wrapper(W, t, d))
       \/ CallE("_block", t, d, <<>>, _block(W, t, d, cursor_api))
       \/ \E data \in Datas, kwargs \in Kwargs :
            CallE("add_rows", t, d, [data |-> data, kwargs |-> kwargs],
                  add_rows(W, t, d, data, kwargs))
  \/ EnterCachedFunc(1, MaxElementOps)
  \/ ExitCachedFunc(1, MaxElementOps)

SpecElements == Init /\ [][NextElements]_vars

\* ------------------------------------------------------------------ properties
\* The calls that end in _enqueue or _enqueue_new_element_delta.
ElementOps ==
  {"empty", "text", "vega_lite_chart", "line_chart", "checkbox", "radio",
   "number_input", "selectbox", "multiselect", "slider", "file_uploader",
   "beta_color_picker", "text_input", "text_area", "time_input", "date_input",
   "dataframe", "table", "area_chart", "bar_chart", "altair_chart",
   "graphviz_chart", "plotly_chart", "pyplot", "bokeh_chart", "image",
   "_iframe", "_html", "audio", "video", "progress", "map", "deck_gl_chart",
   "pydeck_chart"}

\* The messages the step appended to the queue of session s.
NewMsgs(s) == SubSeq(queues'[s], Len(queues[s]) + 1, Len(queues'[s]))

\* The messages of queue q whose metadata was read from cursor c, in order.
ReadFrom(q, c) == SelectSeq(q, LAMBDA m : m.cur = c)

\* The step was an element call that returned, made with a report context on
\* a generator whose container and cursor are both set.
EnqueueingStep ==
  /\ nops' = nops + 1
  /\ last'.op \in ElementOps
  /\ ~last'.raised
  /\ last'.t \in Sessions
  /\ ContainerTruthy(dgs[last'.d].container)
  /\ CursorOf(W, last'.t, last'.d) # 0

\* C1: every element call that returns, on a generator whose container and
\* cursor are both set, hands exactly one message of its own to the caller's
\* session context (whatever the cached-function warning and its marshalling
\* enqueued comes before it and is an exception or an alert), and that
\* message carries the generator's container, the cursor's path, and the
\* cursor's index as it stands when the message is enqueued; the queues of
\* other sessions are untouched.
C1_OneOwnMessage ==
  [][EnqueueingStep =>
       LET t == last'.t
           d == last'.d
           c == CursorOf(W, t, d)
           new == NewMsgs(t)
           own == new[Len(new)]
           before == SubSeq(new, 1, Len(new) - 1)
       IN /\ Len(new) >= 1
          /\ own.kind = "new_element"
          /\ own.delta_type = last'.op
          /\ \A i \in 1..Len(before) :
               before[i].delta_type \in {"alert", "exception"}
          /\ own.container = dgs[d].container
          /\ own.path = cursors[c].path
          /\ own.delta_id =
               cursors[c].index + (IF cursors[c].locked THEN 0
                                   ELSE Len(ReadFrom(before, c)))
          /\ \A s \in Sessions \ {t} : queues'[s] = queues[s]
    ]_vars

\* C1 witness: a chart with a deprecated width on the main generator; its
\* warning took index 0, the chart's own message carries index 1.
C1_Witness ==
  /\ last.op = "vega_lite_chart" /\ last.args.width = 100
  /\ last.d = MainDg /\ last.t = 1
  /\ Len(queues[1]) = 2
  /\ queues[1][1].delta_type = "alert" /\ queues[1][1].delta_id = 0
  /\ queues[1][2].delta_type = "vega_lite_chart" /\ queues[1][2].delta_id = 1

\* C2: for every running cursor, the messages addressed through it carry
\* delta_ids 0, 1, ..., n-1 in enqueue order, n being the number of element
\* and _block calls made on it (its index).
C2_GapFreeIds ==
  \A c \in 1..Len(cursors) :
    ~cursors[c].locked =>
      /\ \A s \in Sessions :
           \A k \in 1..Len(ReadFrom(queues[s], c)) :
             ReadFrom(queues[s], c)[k].delta_id = k - 1
      /\ \E s \in Sessions :
           /\ Len(ReadFrom(queues[s], c)) = cursors[c].index
           /\ \A r \in Sessions \ {s} : Len(ReadFrom(queues[r], c)) = 0

\* C2 witness: three appends to the main container, a block among them.
C2_Witness ==
  /\ cursors[CtxCursorId(1, "MAIN")].index = 3
  /\ Len(queues[1]) = 3
  /\ \E i \in 1..3 : queues[1][i].kind = "new_block"
  /\ \E i \in 1..3 : queues[1][i].kind = "new_element"
  /\ \A i \in 1..3 : queues[1][i].delta_id = i - 1

\* The step was an element call that returned, made with a report context on
\* a generator locked to an element's position.
LockedElementStep ==
  /\ EnqueueingStep
  /\ dgs[last'.d].cursor # 0
  /\ cursors[dgs[last'.d].cursor].locked

\* C3: an element call on a generator locked to an element enqueues its
\* message at that element's container, path and delta_id, and leaves the
\* running cursor of the generator's container where it was.
C3_UpdateInPlace ==
  [][LockedElementStep =>
       LET t == last'.t
           d == last'.d
           c == dgs[d].cursor
           new == NewMsgs(t)
           own == new[Len(new)]
           running == CtxCursorId(t, dgs[d].container)
       IN /\ own.container = dgs[d].container
          /\ own.path = cursors[c].path
          /\ own.delta_id = cursors[c].index
          /\ cursors'[c].index = cursors[c].index
          /\ cursors'[running].index = cursors[running].index
    ]_vars

\* C4: text(body) on a generator that enqueues returns a generator locked to
\* the text element it created.
C4_TextReturnsLockedDg ==
  (/\ last.op = "text"
   /\ ~last.raised
   /\ last.t \in Sessions
   /\ ContainerTruthy(dgs[last.d].container))
  => /\ last.ret.ty = "dg"
     /\ dgs[last.ret.v].cursor # 0
     /\ cursors[dgs[last.ret.v].cursor].locked

\* C5: no call made on a generator whose container is None enqueues a
\* message.
C5_NullGeneratorSilent ==
  [][(nops' = nops + 1 /\ dgs[last'.d].container = NoContainer)
       => queues' = queues]_vars

\* C6: every element addressed through the running cursor of a block has the
\* path of a new_block message enqueued before it, followed by that block's
\* delta_id, in the same container, and its delta_id is the number of
\* messages addressed through that cursor before it.
C6_BlockAddressing ==
  \A s \in Sessions :
    \A i \in 1..Len(queues[s]) :
      LET m == queues[s][i]
          c == m.cur
      IN (c > 2 * Cardinality(Sessions) /\ ~cursors[c].locked) =>
           /\ \E j \in 1..(i - 1) :
                /\ queues[s][j].kind = "new_block"
                /\ queues[s][j].container = m.container
                /\ Append(queues[s][j].path, queues[s][j].delta_id) = m.path
           /\ m.path = cursors[c].path
           /\ m.delta_id = Len(ReadFrom(SubSeq(queues[s], 1, i - 1), c))

\* C6 witness: a block is created at index 0 of the main container, a sibling
\* is appended at index 1, and only then an element is written into the
\* block: it is addressed with path <<0>> and delta_id 0.
C6_Witness ==
  /\ Len(queues[1]) = 3
  /\ queues[1][1].kind = "new_block" /\ queues[1][1].delta_id = 0
  /\ queues[1][1].path = <<>>
  /\ queues[1][2].kind = "new_element" /\ queues[1][2].path = <<>>
  /\ queues[1][2].delta_id = 1
  /\ queues[1][3].kind = "new_element" /\ queues[1][3].path = <<0>>
  /\ queues[1][3].delta_id = 0
  /\ queues[1][3].container = queues[1][1].container

\* The option a radio or selectbox call selects, None when there are no
\* options.
SelectedOption(args) ==
  IF Len(args.options) = 0 THEN None
  ELSE args.options[(IF args.ui_value # None THEN args.ui_value.v
                     ELSE args.index.v) + 1]

\* The widgets that always have a value.
ValueWidgets ==
  {"checkbox", "number_input", "multiselect", "slider", "beta_color_picker",
   "text_input", "text_area", "time_input", "date_input"}

\* C7: what an element call hands back: None when the widget's value is the
\* NoValue marker (a radio without a selectable option), the generator when
\* the element has no value, as for empty and text (locked to the new
\* element when a message was enqueued), and otherwise the widget's value
\* unchanged, also when it is False, 0, an empty string, an empty list or
\* timedelta(0); never the NoValue class.
C7_ValueOrDg ==
  ~last.raised =>
    /\ last.ret # NoValueClass
    /\ last.op = "checkbox" =>
         last.ret = BoolV(Truthy(IF last.args.ui_value # None
                                   THEN last.args.ui_value
                                   ELSE last.args.value))
    /\ last.op \in {"radio", "selectbox"} =>
         last.ret = SelectedOption(last.args)
    /\ last.op = "number_input" =>
         last.ret = last.args.default
    /\ last.op \in ValueWidgets =>
         last.ret.ty \notin {"dg", "None"}
    /\ (last.op = "multiselect" /\ last.args.ui_value = None
          /\ last.args.default = ListV(<<>>)) =>
         last.ret = ListV(<<>>)
    /\ (last.op \in {"text_input", "text_area"} /\ last.args.ui_value = None
          /\ last.args.value = StrV(<<>>)) =>
         last.ret = StrV(<<>>)
    /\ last.op = "file_uploader" =>
         last.ret = (IF last.t \in Sessions /\ last.args.files # None
                       THEN last.args.files.v[1]
                       ELSE None)
    /\ (last.op = "multiselect" /\ last.args.ui_value = None
          /\ last.args.default = TimedeltaV(0, 0, 0)) =>
         last.ret = ListV(<<TimedeltaV(0, 0, 0)>>)
    /\ last.op \in {"empty", "text"} =>
         /\ last.ret.ty = "dg"
         /\ IF last.t \in Sessions /\ ContainerTruthy(dgs[last.d].container)
              THEN /\ last.ret.v > NullDg
                   /\ cursors[dgs[last.ret.v].cursor].locked
              ELSE last.ret.v = last.d

\* The number of datasets an add_rows call passes.
NumDatasets(args) ==
  (IF args.data # None THEN 1 ELSE 0) + Len(args.kwargs)

\* The last call acted on a generator of the caller's session that is locked
\* to an element.
LastOnLockedDg ==
  /\ last.t \in Sessions
  /\ ContainerTruthy(dgs[last.d].container)
  /\ dgs[last.d].cursor # 0
  /\ cursors[dgs[last.d].cursor].locked

\* C8: add_rows on an existing element raises whenever the number of datasets
\* passed, data included, is not exactly one.
C8_ExactlyOneDataset ==
  (last.op = "add_rows" /\ LastOnLockedDg /\ NumDatasets(last.args) # 1)
    => last.raised

\* C9: add_rows on a generator that has a container and a running cursor
\* raises and enqueues nothing.
C9_AddRowsNeedsLocked ==
  [][(/\ nops' = nops + 1
      /\ last'.op = "add_rows"
      /\ dgs[last'.d].container # NoContainer
      /\ CursorOf(W, last'.t, last'.d) # 0
      /\ ~cursors[CursorOf(W, last'.t, last'.d)].locked)
     => (last'.raised /\ queues' = queues /\ cursors' = cursors)
    ]_vars

\* C9 witness: add_rows with one dataset on the running generator of a block
\* raised, after an element had been written.
C9_Witness ==
  /\ last.op = "add_rows" /\ last.raised /\ last.t = 1
  /\ NumDatasets(last.args) = 1
  /\ dgs[last.d].cursor # 0
  /\ ~cursors[dgs[last.d].cursor].locked
  /\ Len(queues[1]) = 2

\* C10: when value is not passed, the default of number_input is min_value
\* whenever min_value is not None, and 0.0 only when min_value is None.
C10_DefaultIsMinValue ==
  (last.op = "number_input" /\ last.args.value = NoValueInstance) =>
    last.args.default =
      (IF last.args.min_value # None THEN last.args.min_value ELSE FloatV(0))

\* The default of the last number_input call lies below a given min_value or
\* above a given max_value of its own numeric type.
DefaultOutsideBounds(args) ==
  \/ /\ args.min_value # None
     /\ args.min_value.ty = args.default.ty
     /\ args.default.v < args.min_value.v
  \/ /\ args.max_value # None
     /\ args.max_value.ty = args.default.ty
     /\ args.default.v > args.max_value.v

\* C11: number_input raises whenever the default value lies below a given
\* min_value or above a given max_value, whatever the value of the bound.
C11_RangeCheckRaises ==
  (/\ last.op = "number_input"
   /\ last.args.default.ty \in {"int", "float"}
   /\ DefaultOutsideBounds(last.args))
  => last.raised

\* The step was an element or widget call on a generator that has no
\* container, or no cursor for the calling thread.
NoOutputStep ==
  /\ nops' = nops + 1
  /\ last'.op \in ElementOps
  /\ \/ ~ContainerTruthy(dgs[last'.d].container)
     \/ CursorOf(W, last'.t, last'.d) = 0

\* C12: a call on a generator without container or without cursor enqueues
\* nothing; when it returns, a widget call hands back its value and a
\* non-widget call hands back the generator it was called on.
C12_NoContainerNoOutput ==
  [][NoOutputStep =>
       /\ queues' = queues
       /\ ~last'.raised =>
            /\ last'.op = "empty" => last'.ret = DgV(last'.d)
            /\ last'.op = "checkbox" => last'.ret.ty = "bool"
            /\ last'.op = "number_input" => last'.ret = last'.args.default
            /\ last'.op = "radio" => last'.ret = SelectedOption(last'.args)
    ]_vars

\* C13: a call that raises while validating its arguments has enqueued no
\* message and advanced no cursor.
C13_RaiseLeavesAppUntouched ==
  [][(nops' = nops + 1 /\ last'.op \in ElementOps /\ last'.raised) =>
       (queues' = queues /\ cursors' = cursors)
    ]_vars

\* ------------------------------------------------------------------ sessions
\* The script threads of both sessions call the module-level generators in
\* any order, each within a cached function or not.
NextSessions ==
  \E t \in Sessions :
    \/ \E d \in {MainDg, SidebarDg} :
         \/ Empty(t, d)
         \/ Text(t, d)
         \/ VegaLiteChart(t, d)
         \/ Block(t, d)
    \/ EnterCachedFunc(t, MaxOps)
    \/ ExitCachedFunc(t, MaxOps)

SpecSessions == Init /\ [][NextSessions]_vars

\* The number of messages among the first n of queue q that are addressed to
\* the top level of container c.
TopLevelCount(q, n, c) ==
  Cardinality({j \in 1..n : q[j].container = c /\ q[j].path = <<>>})

\* C14: whatever the interleaving of the sessions' calls on the module-level
\* generators, a call's messages go to the queue of the calling session only,
\* the own message of a call that returns is addressed to the container of
\* the generator called, and every message carries as delta_id the number of messages that
\* session enqueued before it for the same container: 0, 1, 2, ... as if the
\* session ran alone.
C14_SessionsIndependent ==
  [][(nops' = nops + 1 /\ last'.t \in Sessions
        /\ last'.d \in {MainDg, SidebarDg}) =>
       LET t == last'.t
           n == Len(queues[t])
           q == queues'[t]
       IN /\ \A s \in Sessions \ {t} : queues'[s] = queues[s]
          /\ ~last'.raised =>
               /\ Len(q) > n
               /\ q[Len(q)].container = dgs[last'.d].container
          /\ \A i \in (n + 1)..Len(q) :
               /\ q[i].path = <<>>
               /\ q[i].delta_id = TopLevelCount(q, i - 1, q[i].container)
    ]_vars

\* C14 witness: session 1 has made two calls on the main generator and
\* session 2 one, before the last call of session 1; both count from 0.
C14_Witness ==
  /\ last.t = 1 /\ last.d = MainDg
  /\ Len(queues[1]) = 2 /\ Len(queues[2]) = 1
  /\ \A i \in 1..2 : queues[1][i].container = "MAIN"
  /\ queues[1][1].delta_id = 0 /\ queues[1][2].delta_id = 1
  /\ queues[2][1].container = "MAIN" /\ queues[2][1].delta_id = 0

====
